---- MODULE Spec2Model ----
(***************************************************************************)
(* Model of frontend/js/visualizations.js: the popup text formatter, the   *)
(* trace builder / legend orderer of the 2D and 3D charts, and the         *)
(* asynchronous load of the visualization data file; and of the roster     *)
(* view of team-view.js.                                                   *)
(*                                                                         *)
(* A JavaScript string is a sequence of characters (UTF-16 code units),    *)
(* each character a TLA+ string.  A value that may also be null or         *)
(* undefined is a record [tag, chars].  The '<br>' that addSmartLineBreaks *)
(* appends to its result is one element "<br>" of the result sequence: the *)
(* function never reads its result back, so the marker is never scanned    *)
(* as characters.                                                          *)
(***************************************************************************)
EXTENDS Integers, Sequences, FiniteSets, TLC

VARIABLES
    fmtInput,      \* the argument given to formatTextForPopup
    fmtOutput,     \* what formatTextForPopup returned
    fmtHanded,     \* the argument formatTextForPopup gave to addSmartLineBreaks
    fmtPc,         \* "input" before the call, "formatted" after it
    chartInput,    \* the chartData given to create2D/3DVisualization
    chartOutput,   \* what the call left behind
    chartPc,       \* "input" before the call, "created2D"/"created3D" after it
    dataFile,      \* VISUALIZATION_CONFIG.dataFile
    started,       \* whether DOMContentLoaded has fired
    loads,         \* the calls of loadVisualizationData, in the order they started
    containers,    \* the three chart containers of the page
    slots,         \* the named text slots of the page
    teamPc,        \* "loading" while loadTeamData awaits, then "done" or "failed"
    teamMembersData, \* the global teamMembersData of the roster view
    currentOrder,  \* the global currentOrder of the roster view
    teamCards,     \* the children of the 'teamCards' container, in order
    teamPage,      \* the other elements of the roster page
    buttonText,    \* the text of the shuffle button
    resetTimers    \* the pending timeouts that reset the button text

textVars == <<fmtInput, fmtOutput, fmtHanded, fmtPc>>

chartVars == <<chartInput, chartOutput, chartPc>>

loadVars == <<dataFile, started, loads, containers, slots>>

teamVars ==
    <<teamPc, teamMembersData, currentOrder, teamCards, teamPage, buttonText,
      resetTimers>>

vars ==
    <<fmtInput, fmtOutput, fmtHanded, fmtPc, chartInput, chartOutput, chartPc,
      dataFile, started, loads, containers, slots, teamPc, teamMembersData,
      currentOrder, teamCards, teamPage, buttonText, resetTimers>>

(***************************************************************************)
(* Characters and JavaScript values                                        *)
(***************************************************************************)

\* One CJK Unified Ideograph (U+4E2D), one Latin letter, one character that
\* is neither (a space).
Ideograph == "U+4E2D"
Letter == "a"
Space == " "
Dot == "."
BR == "<br>"

Chars == {Ideograph, Letter, Space}

Str(s) == [tag |-> "string", chars |-> s]
Null == [tag |-> "null", chars |-> <<>>]
Undefined == [tag |-> "undefined", chars |-> <<>>]

\* F applied to the value of x.  TLC evaluates the definitions of a LET and the
\* arguments of an operator at each of their uses; a bound variable holds a
\* value, so x is evaluated once here.
Once(x, F(_)) == CHOOSE r \in {F(v) : v \in {x}} : TRUE

\* n times the character ch.
Run(ch, n) == [i \in 1..n |-> ch]

\* The regular expression /[\u4e00-\u9fff]/ of formatTextForPopup, on one character.
IsCJKIdeograph(ch) == ch = Ideograph

\* The regular expression /[a-zA-Z]/ of addSmartLineBreaks, on one character.
IsLatinLetter(ch) == ch = Letter

\* /[\u4e00-\u9fff]/.test(text)
HasCJK(s) == \E i \in 1..Len(s) : IsCJKIdeograph(s[i])

\* !text
Falsy(v) == v.tag \in {"null", "undefined"} \/ (v.tag = "string" /\ v.chars = <<>>)

\* text.substring(0, n)
Substring0(s, n) == SubSeq(s, 1, IF n < Len(s) THEN n ELSE Len(s))

\* The literal '...'
Ellipsis == <<Dot, Dot, Dot>>

chineseMaxLength == 40
westernMaxLength == 80
lineLength == 15

(***************************************************************************)
(* addSmartLineBreaks                                                      *)
(***************************************************************************)

\* BreaksAfter without the look-ahead for an English word.
BreaksAfter_noLookAhead(text, i, position) ==
    /\ position >= lineLength
    /\ i - 1 < Len(text) - 1

\* BreaksAfter without the test 'i < text.length - 1'.
BreaksAfter_afterLast(text, i, position) ==
    /\ position >= lineLength
    /\ ~(i < Len(text) /\ IsLatinLetter(text[i]) /\ IsLatinLetter(text[i + 1]))

\* BreaksAfter with 'i <= text.length - 1': at the last character text[i + 1]
\* is undefined, which /[a-zA-Z]/ matches as the string 'undefined'.
BreaksAfter_uptoLast(text, i, position) ==
    /\ position >= lineLength
    /\ i - 1 <= Len(text) - 1
    /\ ~(IsLatinLetter(text[i]) /\ (i = Len(text) \/ IsLatinLetter(text[i + 1])))

\* Whether the loop body at (1-based) index i, with the running count already
\* incremented to position, appends '<br>'.
BreaksAfter(text, i, position) ==
    /\ position >= lineLength
    /\ i - 1 < Len(text) - 1
    /\ ~(IsLatinLetter(text[i]) /\ IsLatinLetter(text[i + 1]))

RECURSIVE BreakLoop(_, _, _, _)
\* The for loop from (1-based) index i on, with the result and the running
\* count built so far.
BreakLoop(text, i, result, position) ==
    IF i > Len(text) THEN result
    ELSE IF BreaksAfter(text, i, position + 1)
         THEN BreakLoop(text, i + 1, Append(Append(result, text[i]), BR), 0)
         ELSE BreakLoop(text, i + 1, Append(result, text[i]), position + 1)

\* addSmartLineBreaks with the loop started at 'i = 1'.
addSmartLineBreaks_fromSecond(text) == BreakLoop(text, 2, <<>>, 0)

addSmartLineBreaks(text) == BreakLoop(text, 1, <<>>, 0)

(***************************************************************************)
(* formatTextForPopup                                                      *)
(***************************************************************************)

\* truncated with >= in place of >.
truncated_inclusive(s) ==
    IF Len(s) >= chineseMaxLength
    THEN Substring0(s, chineseMaxLength) \o Ellipsis
    ELSE s

\* truncated with westernMaxLength as its limit.
truncated_westernLimit(s) ==
    IF Len(s) > westernMaxLength
    THEN Substring0(s, westernMaxLength) \o Ellipsis
    ELSE s

\* The local 'truncated' of the Chinese branch.
truncated(s) ==
    IF Len(s) > chineseMaxLength
    THEN Substring0(s, chineseMaxLength) \o Ellipsis
    ELSE s

\* The English/Spanish branch with the line breaks of the Chinese branch.
westernFormat_withBreaks(s) ==
    addSmartLineBreaks(IF Len(s) > westernMaxLength
                       THEN Substring0(s, westernMaxLength) \o Ellipsis
                       ELSE s)

\* The English/Spanish branch.
westernFormat(s) ==
    IF Len(s) > westernMaxLength
    THEN Substring0(s, westernMaxLength) \o Ellipsis
    ELSE s

\* formatTextForPopup with 'return ""' for a falsy text.
formatTextForPopup_emptyForFalsy(text) ==
    IF Falsy(text) THEN Str(<<>>)
    ELSE IF HasCJK(text.chars)
         THEN Str(addSmartLineBreaks(truncated(text.chars)))
         ELSE Str(westernFormat(text.chars))

formatTextForPopup(text) ==
    IF Falsy(text) THEN text
    ELSE IF HasCJK(text.chars)
         THEN Str(addSmartLineBreaks(truncated(text.chars)))
         ELSE Str(westernFormat(text.chars))

\* What one call of formatTextForPopup hands to addSmartLineBreaks: nothing
\* (Undefined) when the call does not reach the Chinese branch.
HandedToLineBreaks(text) ==
    IF ~Falsy(text) /\ HasCJK(text.chars)
    THEN Str(truncated(text.chars))
    ELSE Undefined

(***************************************************************************)
(* Numbers                                                                 *)
(*                                                                         *)
(* A coordinate is a fixed-point number, an integer count of 1/10000.      *)
(***************************************************************************)

Digits == <<"0", "1", "2", "3", "4", "5", "6", "7", "8", "9">>

Digit(d) == Digits[d + 1]

Abs(n) == IF n < 0 THEN -n ELSE n

RECURSIVE DecimalDigits(_)
DecimalDigits(n) ==
    IF n < 10 THEN <<Digit(n)>>
    ELSE Append(DecimalDigits(n \div 10), Digit(n % 10))

\* (n/10000).toFixed(3): rounded to thousandths, three decimals, the sign kept.
toFixed3(n) ==
    LET r == (Abs(n) + 5) \div 10
    IN (IF n < 0 THEN <<"-">> ELSE <<>>)
       \o DecimalDigits(r \div 1000)
       \o <<".", Digit((r \div 100) % 10), Digit((r \div 10) % 10), Digit(r % 10)>>

\* ((v/10000)*100).toFixed(1): a percentage with one decimal.
toFixed1Percent(v) ==
    LET r == (Abs(v) + 5) \div 10
    IN (IF v < 0 THEN <<"-">> ELSE <<>>)
       \o DecimalDigits(r \div 10) \o <<".", Digit(r % 10)>>

(***************************************************************************)
(* getLegendOrder                                                          *)
(***************************************************************************)

getLegendOrder ==
    << "ENG Document",
       "ESP Document",
       "ZHO Document",
       "ENG Section (L0)",
       "ENG Section (L1+)",
       "ESP Section (L0)",
       "ESP Section (L1+)",
       "ZHO Section (L0)",
       "ZHO Section (L1+)",
       "ENG Paragraph",
       "ESP Paragraph",
       "ZHO Paragraph" >>

(***************************************************************************)
(* Popups                                                                  *)
(*                                                                         *)
(* A popup string is the sequence of its '<br>'-separated fields, each a   *)
(* record of the field's caption and its interpolated text; '' is <<>>.    *)
(***************************************************************************)

\* ${v} in a template literal.
Interp(v) == IF v.tag = "string" THEN v.chars ELSE <<v.tag>>

PopupField(caption, chars) == [field |-> caption, value |-> chars]

\* popupFields with the 'Section ID' line in the PARAGRAPH template as well.
popupFields_sectionIdInParagraph(point) ==
    LET popup == point.popup
        header == PopupField("header", <<popup.type>>)
        item == PopupField("Corpus item", Interp(popup.corpus_item))
        title == PopupField("Title", Interp(formatTextForPopup(popup.document_title)))
        sectionTitle ==
            PopupField("Section title", Interp(formatTextForPopup(popup.section_title)))
        excerpt == PopupField("Excerpt", Interp(formatTextForPopup(popup.excerpt)))
    IN IF popup.type = "DOCUMENT" THEN <<header, item, title>>
       ELSE IF popup.type = "SECTION"
            THEN <<header, item, title,
                   PopupField("Section ID", Interp(popup.section_id)),
                   sectionTitle, excerpt>>
       ELSE IF popup.type = "PARAGRAPH"
            THEN <<header, item, title,
                   PopupField("Section ID", Interp(popup.section_id)),
                   PopupField("Paragraph ID", Interp(popup.paragraph_id)),
                   sectionTitle, excerpt>>
       ELSE <<>>

\* The fields of the popup up to the coordinate block, by point.popup.type.
popupFields(point) ==
    LET popup == point.popup
        header == PopupField("header", <<popup.type>>)
        item == PopupField("Corpus item", Interp(popup.corpus_item))
        title == PopupField("Title", Interp(formatTextForPopup(popup.document_title)))
        sectionTitle ==
            PopupField("Section title", Interp(formatTextForPopup(popup.section_title)))
        excerpt == PopupField("Excerpt", Interp(formatTextForPopup(popup.excerpt)))
    IN IF popup.type = "DOCUMENT" THEN <<header, item, title>>
       ELSE IF popup.type = "SECTION"
            THEN <<header, item, title,
                   PopupField("Section ID", Interp(popup.section_id)),
                   sectionTitle, excerpt>>
       ELSE IF popup.type = "PARAGRAPH"
            THEN <<header, item, title,
                   PopupField("Paragraph ID", Interp(popup.paragraph_id)),
                   sectionTitle, excerpt>>
       ELSE <<>>

KnownPopupType(point) == point.popup.type \in {"DOCUMENT", "SECTION", "PARAGRAPH"}

\* popup2D with the coordinate block appended outside the if chain.
popup2D_coordinatesAlways(point) ==
    (IF KnownPopupType(point) THEN popupFields(point) ELSE <<>>)
    \o <<PopupField("X", toFixed3(point.x)), PopupField("Y", toFixed3(point.y))>>

popup2D(point) ==
    IF KnownPopupType(point)
    THEN popupFields(point)
         \o <<PopupField("X", toFixed3(point.x)), PopupField("Y", toFixed3(point.y))>>
    ELSE <<>>

popup3D(point) ==
    IF KnownPopupType(point)
    THEN popupFields(point)
         \o <<PopupField("X", toFixed3(point.x)), PopupField("Y", toFixed3(point.y)),
              PopupField("Z", toFixed3(point.z))>>
    ELSE <<>>

(***************************************************************************)
(* Trace building and legend ordering                                      *)
(***************************************************************************)

\* `${point.language} ${point.type}`
LegendKey(point) == point.language \o " " \o point.type

\* The object 'traces' is the sequence of its values in insertion order (the
\* order Object.keys would give); the key of a value is its name.
NoTraces == <<>>

\* traces[key] is set
HasTrace(traces, key) == \E i \in 1..Len(traces) : traces[i].name = key

\* The place of traces[key] among the values; that of a value added next when
\* traces[key] is not set.
TraceIndex(traces, key) ==
    IF HasTrace(traces, key)
    THEN CHOOSE i \in 1..Len(traces) : traces[i].name = key
    ELSE Len(traces) + 1

newTrace2D(key, point) ==
    [x |-> <<>>, y |-> <<>>, mode |-> "markers", type |-> "scatter", name |-> key,
     marker |-> [color |-> point.color, size |-> 10],
     text |-> <<>>, customdata |-> <<>>]

newTrace3D(key, point) ==
    [x |-> <<>>, y |-> <<>>, z |-> <<>>, mode |-> "markers", type |-> "scatter3d",
     name |-> key, marker |-> [color |-> point.color, size |-> 8],
     text |-> <<>>, customdata |-> <<>>]

\* pushPoint2D with unshift in place of push.
pushPoint2D_unshift(traces, point) ==
    LET key == LegendKey(point)
        had == IF HasTrace(traces, key) THEN traces
               ELSE Append(traces, newTrace2D(key, point))
    IN [had EXCEPT ![TraceIndex(traces, key)].x = <<point.x>> \o @,
                   ![TraceIndex(traces, key)].y = <<point.y>> \o @,
                   ![TraceIndex(traces, key)].text = <<point.label>> \o @]

\* The pushes of one forEach callback before the popup is composed.
pushPoint2D(traces, point) ==
    LET key == LegendKey(point)
        had == IF HasTrace(traces, key) THEN traces
               ELSE Append(traces, newTrace2D(key, point))
    IN [had EXCEPT ![TraceIndex(traces, key)].x = Append(@, point.x),
                   ![TraceIndex(traces, key)].y = Append(@, point.y),
                   ![TraceIndex(traces, key)].text = Append(@, point.label)]

\* pushPoint3D without the test 'if (!traces[key])': the trace is created anew
\* for every point.
pushPoint3D_overwrite(traces, point) ==
    LET key == LegendKey(point)
        fresh == newTrace3D(key, point)
        had == IF HasTrace(traces, key)
               THEN [traces EXCEPT ![TraceIndex(traces, key)] = fresh]
               ELSE Append(traces, fresh)
    IN [had EXCEPT ![TraceIndex(traces, key)].x = Append(@, point.x),
                   ![TraceIndex(traces, key)].y = Append(@, point.y),
                   ![TraceIndex(traces, key)].z = Append(@, point.z),
                   ![TraceIndex(traces, key)].text = Append(@, point.label),
                   ![TraceIndex(traces, key)].customdata =
                        IF HasTrace(traces, key)
                        THEN traces[TraceIndex(traces, key)].customdata
                        ELSE @]

pushPoint3D(traces, point) ==
    LET key == LegendKey(point)
        had == IF HasTrace(traces, key) THEN traces
               ELSE Append(traces, newTrace3D(key, point))
    IN [had EXCEPT ![TraceIndex(traces, key)].x = Append(@, point.x),
                   ![TraceIndex(traces, key)].y = Append(@, point.y),
                   ![TraceIndex(traces, key)].z = Append(@, point.z),
                   ![TraceIndex(traces, key)].text = Append(@, point.label)]

\* pushPopup that pushes only a non-empty popup.
pushPopup_skipEmpty(traces, point, popup) ==
    IF popup = <<>> THEN traces
    ELSE [traces EXCEPT
            ![TraceIndex(traces, LegendKey(point))].customdata = Append(@, popup)]

\* traces[key].customdata.push(popup)
pushPopup(traces, point, popup) ==
    [traces EXCEPT ![TraceIndex(traces, LegendKey(point))].customdata = Append(@, popup)]

RECURSIVE group2D(_, _, _)
\* data.forEach of create2DVisualization from (1-based) index i on.  Reading
\* point.popup.type of a point without a popup object throws a TypeError.
group2D(data, i, traces) ==
    IF i > Len(data) THEN [threw |-> FALSE, traces |-> traces]
    ELSE LET Rest(done) == group2D(data, i + 1, done)
             Popup(pushed) ==
                IF ~data[i].popup.present
                THEN [threw |-> TRUE, traces |-> pushed]
                ELSE Once(pushPopup(pushed, data[i], popup2D(data[i])), Rest)
         IN Once(pushPoint2D(traces, data[i]), Popup)

RECURSIVE group3D(_, _, _)
group3D(data, i, traces) ==
    IF i > Len(data) THEN [threw |-> FALSE, traces |-> traces]
    ELSE LET Rest(done) == group3D(data, i + 1, done)
             Popup(pushed) ==
                IF ~data[i].popup.present
                THEN [threw |-> TRUE, traces |-> pushed]
                ELSE Once(pushPopup(pushed, data[i], popup3D(data[i])), Rest)
         IN Once(pushPoint3D(traces, data[i]), Popup)

\* sortedTraces as Object.values(traces): the insertion order.
sortedTraces_insertionOrder(traces) == traces

\* sortedTraces that appends the traces the legend order does not list.
sortedTraces_keepUnlisted(traces) ==
    LET Has(key) == HasTrace(traces, key)
        keys == SelectSeq(getLegendOrder, Has)
        Listed(t) == \E i \in 1..Len(getLegendOrder) : getLegendOrder[i] = t.name
        Unlisted(t) == ~Listed(t)
    IN [i \in 1..Len(keys) |-> traces[TraceIndex(traces, keys[i])]]
       \o SelectSeq(traces, Unlisted)

\* legendOrder.forEach(key => { if (traces[key]) sortedTraces.push(traces[key]) })
sortedTraces(traces) ==
    LET Has(key) == HasTrace(traces, key)
        keys == SelectSeq(getLegendOrder, Has)
    IN [i \in 1..Len(keys) |-> traces[TraceIndex(traces, keys[i])]]

(***************************************************************************)
(* Chart containers                                                        *)
(***************************************************************************)

NoLayout == [title |-> "", axes |-> <<>>]

\* The markup the page ships in a chart container.
InitialContainer(class) ==
    [className |-> class, kind |-> "loading", traces |-> <<>>, layout |-> NoLayout,
     file |-> "", message |-> <<>>]

\* container.innerHTML = ''; container.className = class
ClearedContainer(class) ==
    [className |-> class, kind |-> "empty", traces |-> <<>>, layout |-> NoLayout,
     file |-> "", message |-> <<>>]

\* The container after Plotly.newPlot(id, traces, layout, config).
PlottedContainer(class, traces, layout) ==
    [className |-> class, kind |-> "plot", traces |-> traces, layout |-> layout,
     file |-> "", message |-> <<>>]

\* The Error Presentation markup.
ErrorContainer(class, file, message) ==
    [className |-> class, kind |-> "error", traces |-> <<>>, layout |-> NoLayout,
     file |-> file, message |-> message]

(***************************************************************************)
(* create2DVisualization, create3DVisualization, createLanguageDistribution*)
(*                                                                         *)
(* Each returns what the call leaves behind: whether it threw, the trace    *)
(* map it had built, the container, and its calls of Plotly.newPlot.       *)
(***************************************************************************)

\* A call of console.log; console.warn and console.error have their own level.
ConsoleLog(text) == [level |-> "log", text |-> text]

layout2D(chartData) ==
    [title |-> chartData.title,
     axes |-> <<toFixed1Percent(chartData.variance_explained[1]),
                toFixed1Percent(chartData.variance_explained[2])>>]

layout3D(chartData) ==
    [title |-> chartData.title,
     axes |-> <<toFixed1Percent(chartData.variance_explained[1]),
                toFixed1Percent(chartData.variance_explained[2]),
                toFixed1Percent(chartData.variance_explained[3])>>]

\* variance[0] of a chart without variance_explained throws a TypeError.
HasVariance(chartData) == chartData.variance_explained # <<>>

create2DVisualization(chartData) ==
    LET Finish(grouped) ==
            LET Plot(sorted) ==
                    [threw |-> FALSE, traces |-> grouped.traces,
                     container |-> PlottedContainer("plot-container", sorted,
                                                    layout2D(chartData)),
                     newPlot |-> <<sorted>>,
                     console |-> <<ConsoleLog("Creating 2D visualization..."),
                                   ConsoleLog("2D visualization created")>>]
            IN IF grouped.threw \/ ~HasVariance(chartData)
               THEN [threw |-> TRUE, traces |-> grouped.traces,
                     container |-> ClearedContainer("plot-container"),
                     newPlot |-> <<>>,
                     console |-> <<ConsoleLog("Creating 2D visualization...")>>]
               ELSE Once(sortedTraces(grouped.traces), Plot)
    IN Once(group2D(chartData.data, 1, NoTraces), Finish)

\* create3DVisualization with the exception of a point caught inside the
\* loop: the traces built so far are sorted and plotted.
create3DVisualization_plotsPartial(chartData) ==
    LET Finish(grouped) ==
            LET Plot(sorted) ==
                    [threw |-> grouped.threw, traces |-> grouped.traces,
                     container |-> PlottedContainer("plot-container", sorted,
                                                    layout3D(chartData)),
                     newPlot |-> <<sorted>>,
                     console |-> <<ConsoleLog("Creating 3D visualization..."),
                                   ConsoleLog("3D visualization created")>>]
            IN IF ~HasVariance(chartData)
               THEN [threw |-> TRUE, traces |-> grouped.traces,
                     container |-> ClearedContainer("plot-container"),
                     newPlot |-> <<>>,
                     console |-> <<ConsoleLog("Creating 3D visualization...")>>]
               ELSE Once(sortedTraces(grouped.traces), Plot)
    IN Once(group3D(chartData.data, 1, NoTraces), Finish)

create3DVisualization(chartData) ==
    LET Finish(grouped) ==
            LET Plot(sorted) ==
                    [threw |-> FALSE, traces |-> grouped.traces,
                     container |-> PlottedContainer("plot-container", sorted,
                                                    layout3D(chartData)),
                     newPlot |-> <<sorted>>,
                     console |-> <<ConsoleLog("Creating 3D visualization..."),
                                   ConsoleLog("3D visualization created")>>]
            IN IF grouped.threw \/ ~HasVariance(chartData)
               THEN [threw |-> TRUE, traces |-> grouped.traces,
                     container |-> ClearedContainer("plot-container"),
                     newPlot |-> <<>>,
                     console |-> <<ConsoleLog("Creating 3D visualization...")>>]
               ELSE Once(sortedTraces(grouped.traces), Plot)
    IN Once(group3D(chartData.data, 1, NoTraces), Finish)

\* barTrace over the entries of the three corpus languages only.
barTrace_listedOnly(distData) ==
    LET Listed(d) == d.language \in {"ENG", "ESP", "ZHO"}
        kept == SelectSeq(distData, Listed)
    IN [x |-> [i \in 1..Len(kept) |-> kept[i].language],
        y |-> [i \in 1..Len(kept) |-> kept[i].count],
        type |-> "bar",
        marker |-> [color |-> [i \in 1..Len(kept) |-> kept[i].color]]]

\* The single bar trace.
barTrace(distData) ==
    [x |-> [i \in 1..Len(distData) |-> distData[i].language],
     y |-> [i \in 1..Len(distData) |-> distData[i].count],
     type |-> "bar",
     marker |-> [color |-> [i \in 1..Len(distData) |-> distData[i].color]]]

createLanguageDistribution(chartData) ==
    [threw |-> FALSE, traces |-> NoTraces,
     container |-> PlottedContainer("plot-container-distribution",
                       <<barTrace(chartData.data)>>,
                       [title |-> chartData.title, axes |-> <<>>]),
     newPlot |-> <<(<<barTrace(chartData.data)>>)>>,
     console |-> <<ConsoleLog("Creating language distribution chart..."),
                   ConsoleLog("Language distribution chart created")>>]

(***************************************************************************)
(* showDataLoadError                                                       *)
(***************************************************************************)

ContainerIds == {"plot-2d-container", "plot-3d-container", "plot-dist-container"}

ErrorClass(id) ==
    IF id = "plot-dist-container" THEN "plot-container-small" ELSE "plot-container"

\* showDataLoadError without 'plot-dist-container' in its list.
showDataLoadError_twoContainers(conts, file, errorMessage) ==
    [id \in ContainerIds |->
        IF id = "plot-dist-container" THEN conts[id]
        ELSE ErrorContainer(ErrorClass(id), file, errorMessage)]

\* The containers after showDataLoadError(errorMessage), with file the value of
\* VISUALIZATION_CONFIG.dataFile at the time of the call.
showDataLoadError(conts, file, errorMessage) ==
    [id \in ContainerIds |-> ErrorContainer(ErrorClass(id), file, errorMessage)]

(***************************************************************************)
(* Point records and chart data drawn for the checks                       *)
(***************************************************************************)

ShortTitle == Str(Run(Letter, 3))
DenseTitle == Str(Run(Ideograph, 16))

PointColor(language) ==
    IF language = "ENG" THEN "#1f77b4"
    ELSE IF language = "ESP" THEN "#ff7f0e"
    ELSE IF language = "ZHO" THEN "#2ca02c"
    ELSE "#7f7f7f"

\* A popup payload; a DOCUMENT payload has no section fields.
MkPopup(popupType, language) ==
    [present |-> TRUE,
     type |-> popupType,
     corpus_item |-> Str(<<"gai-item001">>),
     document_title |-> IF language = "ZHO" THEN DenseTitle ELSE ShortTitle,
     section_id |-> IF popupType = "SECTION" THEN Str(<<"sec-1">>) ELSE Undefined,
     paragraph_id |-> IF popupType = "PARAGRAPH" THEN Str(<<"par-1">>) ELSE Undefined,
     section_title |-> IF popupType = "DOCUMENT" THEN Undefined ELSE ShortTitle,
     excerpt |-> IF popupType = "DOCUMENT" THEN Undefined ELSE Str(Run(Letter, 2))]

\* point.popup of a record that has no popup object.
NoPopup ==
    [present |-> FALSE, type |-> "", corpus_item |-> Undefined,
     document_title |-> Undefined, section_id |-> Undefined,
     paragraph_id |-> Undefined, section_title |-> Undefined, excerpt |-> Undefined]

\* The n-th point of a language and type: (0.1, 0.2, 0.5) or (0.3, -0.4, 0.5).
MkPoint(language, type, popup, n) ==
    [language |-> language, type |-> type,
     x |-> IF n = 1 THEN 1000 ELSE 3000,
     y |-> IF n = 1 THEN 2000 ELSE -4000,
     z |-> 5000,
     label |-> IF n = 1 THEN "first" ELSE "second",
     color |-> PointColor(language),
     popup |-> popup]

PointRecords ==
    { MkPoint("ENG", "Document", MkPopup("DOCUMENT", "ENG"), 1),
      MkPoint("ENG", "Document", MkPopup("DOCUMENT", "ENG"), 2),
      MkPoint("ESP", "Paragraph", MkPopup("PARAGRAPH", "ESP"), 1),
      MkPoint("ESP", "Paragraph", MkPopup("PARAGRAPH", "ESP"), 2),
      MkPoint("ENG", "Section (L0)", MkPopup("SECTION", "ENG"), 1),
      MkPoint("ZHO", "Document", MkPopup("DOCUMENT", "ZHO"), 1),
      \* a PARAGRAPH payload that carries the id of its section as well
      MkPoint("ZHO", "Paragraph",
              [MkPopup("PARAGRAPH", "ZHO") EXCEPT !.section_id = Str(<<"sec-1">>)], 1),
      \* a language the legend vocabulary does not list
      MkPoint("FRA", "Document", MkPopup("DOCUMENT", "FRA"), 1),
      \* a popup type the composer does not know
      MkPoint("ENG", "Document", MkPopup("CHAPTER", "ENG"), 2),
      \* a record without a popup object
      MkPoint("ESP", "Paragraph", NoPopup, 1) }

MaxPoints == 3

PointSeqs == UNION {[1..k -> PointRecords] : k \in 0..MaxPoints}

Variances == {<<4230, 2110, 1004>>, <<>>}

ChartInputs ==
    {[title |-> "PCA", variance_explained |-> v, data |-> d] :
        v \in Variances, d \in PointSeqs}

NoOutput ==
    [threw |-> FALSE, traces |-> NoTraces,
     container |-> InitialContainer("plot-container"), newPlot |-> <<>>,
     console |-> <<>>]

TextIdle ==
    /\ fmtInput = Undefined
    /\ fmtOutput = Undefined
    /\ fmtHanded = Undefined
    /\ fmtPc = "idle"

ChartIdle ==
    /\ chartInput = [title |-> "", variance_explained |-> <<>>, data |-> <<>>]
    /\ chartOutput = NoOutput
    /\ chartPc = "idle"

\* The roster page before its script has run: the variables as team-view.js
\* declares them, an empty 'teamCards' container and the button's idle text.
InitialTeamPage ==
    [loadingIndicator |-> "shown", errorMessage |-> "hidden",
     teamSection |-> "hidden", teamCards |-> TRUE]

ShuffleLabel == "Shuffle Team Order"

\* let teamMembersData = null
NoTeamData == [tag |-> "null", hasMembers |-> FALSE, members |-> <<>>]

TeamIdle ==
    /\ teamPc = "idle"
    /\ teamMembersData = NoTeamData
    /\ currentOrder = <<>>
    /\ teamCards = <<>>
    /\ teamPage = InitialTeamPage
    /\ buttonText = ShuffleLabel
    /\ resetTimers = 0

\* The datasets a data file may hold.
GoodChart(points) ==
    [title |-> "PCA", variance_explained |-> <<4230, 2110, 1004>>, data |-> points]

NoChart == [title |-> "", variance_explained |-> <<>>, data |-> <<>>]

DistChart(n) ==
    [title |-> "Vectors by language",
     data |-> <<[language |-> "ENG", count |-> n, color |-> PointColor("ENG")],
                [language |-> "ESP", count |-> 3, color |-> PointColor("ESP")]>>]

NoDist == [title |-> "", data |-> <<>>]

PointsA ==
    << MkPoint("ESP", "Paragraph", MkPopup("PARAGRAPH", "ESP"), 2),
       MkPoint("ENG", "Document", MkPopup("DOCUMENT", "ENG"), 1) >>

PointsB ==
    << MkPoint("ZHO", "Document", MkPopup("DOCUMENT", "ZHO"), 1),
       MkPoint("FRA", "Document", MkPopup("DOCUMENT", "FRA"), 1) >>

PointsBad ==
    << MkPoint("ENG", "Document", MkPopup("DOCUMENT", "ENG"), 1),
       MkPoint("ESP", "Paragraph", NoPopup, 1) >>

Dataset(id, hasMetadata, stats, p2, has3d, p3, hasDist) ==
    [id |-> id, hasMetadata |-> hasMetadata, stats |-> stats,
     has2d |-> TRUE, pca_2d |-> GoodChart(p2),
     has3d |-> has3d, pca_3d |-> IF has3d THEN GoodChart(p3) ELSE NoChart,
     hasDist |-> hasDist,
     language_distribution |-> IF hasDist THEN DistChart(5) ELSE NoDist]

Datasets ==
    { Dataset("A", TRUE, "ok", PointsA, TRUE, PointsA, TRUE),
      \* no pca_3d and no language_distribution
      Dataset("B", TRUE, "ok", PointsB, FALSE, <<>>, FALSE),
      \* a 3D point without a popup object
      Dataset("C", TRUE, "ok", PointsA, TRUE, PointsBad, TRUE),
      \* a 2D point without a popup object
      Dataset("F", TRUE, "ok", PointsBad, TRUE, PointsA, TRUE),
      \* no metadata object
      Dataset("D", FALSE, "ok", PointsA, TRUE, PointsA, TRUE),
      \* corpus_statistics without languages
      Dataset("E", TRUE, "noLanguages", PointsA, TRUE, PointsA, TRUE) }

(***************************************************************************)
(* updateVisualizationsFromData                                            *)
(*                                                                         *)
(* A dataset is [id, hasMetadata, stats, has2d, pca_2d, has3d, pca_3d,     *)
(* hasDist, language_distribution]; stats is "ok", "absent" (no            *)
(* corpus_statistics object) or "noLanguages" (corpus_statistics without   *)
(* its languages object).  A slot holds the id of the dataset written to   *)
(* it.                                                                     *)
(***************************************************************************)

\* updateModelInfo
updateModelInfo(s, data) == [s EXCEPT !.model = data.id]

\* updateCorpusStatistics: stat-documents is written before stats.languages is
\* read, the other counters after it.
updateCorpusStatistics(s, data) ==
    IF data.stats = "noLanguages"
    THEN [threw |-> TRUE, slots |-> [s EXCEPT !.statDocuments = data.id]]
    ELSE [threw |-> FALSE,
          slots |-> [s EXCEPT !.statDocuments = data.id, !.statOthers = data.id]]

\* updateTimestamp
updateTimestamp(s, data) == [s EXCEPT !.timestamp = data.id]

\* chartStep with a try block of its own around each chart: the charts after
\* a failing one are still built.
chartStep_tryPerChart(st, has, id, made) ==
    IF ~has THEN st
    ELSE [conts |-> [st.conts EXCEPT ![id] = made.container],
          rendered |-> IF made.threw THEN st.rendered ELSE st.rendered \cup {id},
          built |-> st.built \cup {id},
          caught |-> st.caught \/ made.threw]

\* One chart of the try block: st is [conts, rendered, built, caught].
chartStep(st, has, id, made) ==
    IF st.caught \/ ~has THEN st
    ELSE [conts |-> [st.conts EXCEPT ![id] = made.container],
          rendered |-> IF made.threw THEN st.rendered ELSE st.rendered \cup {id},
          built |-> st.built \cup {id},
          caught |-> made.threw]

\* What each chart function leaves behind when it is called with the chart
\* of a dataset: a chart function reads nothing but its argument.
ChartCalls ==
    [d \in Datasets |->
        [pca_2d |-> create2DVisualization(d.pca_2d),
         pca_3d |-> create3DVisualization(d.pca_3d),
         language_distribution |->
             createLanguageDistribution(d.language_distribution)]]

\* The try block that creates the charts; its catch only logs.
createCharts(conts, data) ==
    LET Dist(st) ==
            LET Made(made) == chartStep(st, data.hasDist, "plot-dist-container", made)
            IN Once(ChartCalls[data].language_distribution, Made)
        ThreeD(st) ==
            LET Made(made) == chartStep(st, data.has3d, "plot-3d-container", made)
            IN Once(Once(ChartCalls[data].pca_3d, Made), Dist)
        TwoD(st) ==
            LET Made(made) == chartStep(st, data.has2d, "plot-2d-container", made)
            IN Once(Once(ChartCalls[data].pca_2d, Made), ThreeD)
    IN TwoD([conts |-> conts, rendered |-> {}, built |-> {}, caught |-> FALSE])

\* updateVisualizationsFromData without the try block around the charts: the
\* exception of a chart function leaves the function.
updateVisualizationsFromData_noTry(conts, s, data) ==
    LET stats == updateCorpusStatistics(updateModelInfo(s, data), data)
        Charts(charts) ==
            [threw |-> charts.caught, conts |-> charts.conts,
             slots |-> updateTimestamp(stats.slots, data),
             rendered |-> charts.rendered, built |-> charts.built,
             caught |-> FALSE]
    IN IF stats.threw
       THEN [threw |-> TRUE, conts |-> conts, slots |-> stats.slots,
             rendered |-> {}, built |-> {}, caught |-> FALSE]
       ELSE Once(createCharts(conts, data), Charts)

\* What updateVisualizationsFromData(data) leaves behind: threw is an
\* exception that leaves the function.
updateVisualizationsFromData(conts, s, data) ==
    LET stats == updateCorpusStatistics(updateModelInfo(s, data), data)
        Charts(charts) ==
            [threw |-> FALSE, conts |-> charts.conts,
             slots |-> updateTimestamp(stats.slots, data),
             rendered |-> charts.rendered, built |-> charts.built,
             caught |-> charts.caught]
    IN IF stats.threw
       THEN [threw |-> TRUE, conts |-> conts, slots |-> stats.slots,
             rendered |-> {}, built |-> {}, caught |-> FALSE]
       ELSE Once(createCharts(conts, data), Charts)

(***************************************************************************)
(* The page and the load of the data file                                  *)
(***************************************************************************)

DefaultDataFile == "data/gai_vector-visualization_data_20250711_153240.json"

\* The file names updateDataFile is called with.
FileNames == {"new.json", "other.json"}

\* HTTP statuses of a response that is not ok, with their status texts.
StatusText(status) == IF status = "404" THEN "Not Found" ELSE "Internal Server Error"

FailureStatuses == {"404", "500"}

MaxLoads == 2

InitialSlots ==
    [model |-> "", statDocuments |-> "", statOthers |-> "", timestamp |-> ""]

InitialContainers ==
    [id \in ContainerIds |->
        InitialContainer(IF id = "plot-dist-container"
                         THEN "plot-container-distribution" ELSE "plot-container")]

LoadIdle ==
    /\ dataFile = DefaultDataFile
    /\ started = FALSE
    /\ loads = <<>>
    /\ containers = InitialContainers
    /\ slots = InitialSlots

\* loadVisualizationData up to its first await: fetch(VISUALIZATION_CONFIG.dataFile).
NewLoad(url) ==
    [url |-> url, pc |-> "fetching", result |-> "pending", cause |-> "",
     status |-> "", data |-> "", rendered |-> {}, built |-> {}, caught |-> FALSE]

\* The catch block of loadVisualizationData in load i.
Failed(i, cause, status) ==
    [loads EXCEPT ![i].pc = "done", ![i].result = "error", ![i].cause = cause,
                  ![i].status = status]

\* The DOMContentLoaded listener.
Startup ==
    /\ ~started
    /\ Len(loads) < MaxLoads
    /\ started' = TRUE
    /\ loads' = Append(loads, NewLoad(dataFile))
    /\ UNCHANGED <<dataFile, containers, slots, textVars, teamVars, chartVars>>

refreshVisualizations ==
    /\ Len(loads) < MaxLoads
    /\ loads' = Append(loads, NewLoad(dataFile))
    /\ UNCHANGED <<dataFile, started, containers, slots, textVars, teamVars, chartVars>>

updateDataFile(newFilename) ==
    /\ Len(loads) < MaxLoads
    /\ dataFile' = "data/" \o newFilename
    /\ loads' = Append(loads, NewLoad(dataFile'))
    /\ UNCHANGED <<started, containers, slots, textVars, teamVars, chartVars>>

\* FetchRejected that calls loadVisualizationData again from the catch block.
FetchRejected_retry(i) ==
    /\ loads[i].pc = "fetching"
    /\ loads' = IF Len(loads) < MaxLoads
                THEN Append(Failed(i, "fetch", ""), NewLoad(dataFile))
                ELSE Failed(i, "fetch", "")
    /\ containers' = showDataLoadError(containers, dataFile, <<"Failed to fetch">>)
    /\ UNCHANGED <<dataFile, started, slots, textVars, teamVars, chartVars>>

\* The fetch of load i is rejected (a network error).
FetchRejected(i) ==
    /\ loads[i].pc = "fetching"
    /\ loads' = Failed(i, "fetch", "")
    /\ containers' = showDataLoadError(containers, dataFile, <<"Failed to fetch">>)
    /\ UNCHANGED <<dataFile, started, slots, textVars, teamVars, chartVars>>

\* ResponseNotOk with the text slots reset before the error is shown.
ResponseNotOk_resetsSlots(i, status) ==
    /\ loads[i].pc = "fetching"
    /\ loads' = Failed(i, "http", status)
    /\ containers' = showDataLoadError(containers, dataFile,
                         <<"Failed to load file:", status, StatusText(status)>>)
    /\ slots' = InitialSlots
    /\ UNCHANGED <<dataFile, started, textVars, teamVars, chartVars>>

\* The fetch of load i resolves with a response that is not ok.
ResponseNotOk(i, status) ==
    /\ loads[i].pc = "fetching"
    /\ loads' = Failed(i, "http", status)
    /\ containers' = showDataLoadError(containers, dataFile,
                         <<"Failed to load file:", status, StatusText(status)>>)
    /\ UNCHANGED <<dataFile, started, slots, textVars, teamVars, chartVars>>

\* The fetch of load i resolves with an ok response: await response.json().
ResponseOk(i) ==
    /\ loads[i].pc = "fetching"
    /\ loads' = [loads EXCEPT ![i].pc = "parsing"]
    /\ UNCHANGED <<dataFile, started, containers, slots, textVars, teamVars, chartVars>>

\* response.json() of load i is rejected: the body is not JSON.
JsonRejected(i) ==
    /\ loads[i].pc = "parsing"
    /\ loads' = Failed(i, "json", "")
    /\ containers' = showDataLoadError(containers, dataFile,
                         <<"Unexpected token < in JSON at position 0">>)
    /\ UNCHANGED <<dataFile, started, slots, textVars, teamVars, chartVars>>

\* JsonParsed that leaves the page alone when a later load has been started.
JsonParsed_latestOnly(i, data) ==
    /\ loads[i].pc = "parsing"
    /\ \E u \in {updateVisualizationsFromData(containers, slots, data)} :
       LET typeError == <<"Cannot read properties of undefined">>
       IN IF i < Len(loads)
          THEN /\ loads' = [loads EXCEPT ![i].pc = "done", ![i].result = "updated",
                                         ![i].data = data.id]
               /\ UNCHANGED <<containers, slots>>
          ELSE IF ~data.hasMetadata
          THEN /\ loads' = [Failed(i, "fields", "") EXCEPT ![i].data = data.id]
               /\ containers' = showDataLoadError(containers, dataFile, typeError)
               /\ UNCHANGED slots
          ELSE IF u.threw
          THEN /\ loads' = [Failed(i, "fields", "") EXCEPT ![i].data = data.id,
                                                           ![i].rendered = u.rendered,
                                                           ![i].built = u.built]
               /\ containers' = showDataLoadError(u.conts, dataFile, typeError)
               /\ slots' = u.slots
          ELSE /\ loads' = [loads EXCEPT ![i].pc = "done", ![i].result = "updated",
                                         ![i].data = data.id,
                                         ![i].rendered = u.rendered,
                                         ![i].built = u.built,
                                         ![i].caught = u.caught]
               /\ containers' = u.conts
               /\ slots' = u.slots
    /\ UNCHANGED <<dataFile, started, textVars, teamVars, chartVars>>

\* JsonParsed without the try block of loadVisualizationData: an exception of
\* the data summary or of updateVisualizationsFromData rejects the promise of
\* the load and nothing is shown.
JsonParsed_noCatch(i, data) ==
    /\ loads[i].pc = "parsing"
    /\ \E u \in {updateVisualizationsFromData(containers, slots, data)} :
       IF ~data.hasMetadata
       THEN /\ loads' = [loads EXCEPT ![i].pc = "done", ![i].result = "rejected",
                                      ![i].data = data.id]
            /\ UNCHANGED <<containers, slots>>
       ELSE IF u.threw
       THEN /\ loads' = [loads EXCEPT ![i].pc = "done", ![i].result = "rejected",
                                      ![i].data = data.id]
            /\ containers' = u.conts
            /\ slots' = u.slots
       ELSE /\ loads' = [loads EXCEPT ![i].pc = "done", ![i].result = "updated",
                                      ![i].data = data.id,
                                      ![i].rendered = u.rendered,
                                      ![i].built = u.built,
                                      ![i].caught = u.caught]
            /\ containers' = u.conts
            /\ slots' = u.slots
    /\ UNCHANGED <<dataFile, started, textVars, teamVars, chartVars>>

\* response.json() of load i resolves with data: the data summary is logged
\* (a TypeError without data.metadata) and updateVisualizationsFromData runs.
JsonParsed(i, data) ==
    /\ loads[i].pc = "parsing"
    /\ \E u \in {updateVisualizationsFromData(containers, slots, data)} :
       LET typeError == <<"Cannot read properties of undefined">>
       IN IF ~data.hasMetadata
          THEN /\ loads' = [Failed(i, "fields", "") EXCEPT ![i].data = data.id]
               /\ containers' = showDataLoadError(containers, dataFile, typeError)
               /\ UNCHANGED slots
          ELSE IF u.threw
          THEN /\ loads' = [Failed(i, "fields", "") EXCEPT ![i].data = data.id,
                                                           ![i].rendered = u.rendered,
                                                           ![i].built = u.built]
               /\ containers' = showDataLoadError(u.conts, dataFile, typeError)
               /\ slots' = u.slots
          ELSE /\ loads' = [loads EXCEPT ![i].pc = "done", ![i].result = "updated",
                                         ![i].data = data.id,
                                         ![i].rendered = u.rendered,
                                         ![i].built = u.built,
                                         ![i].caught = u.caught]
               /\ containers' = u.conts
               /\ slots' = u.slots
    /\ UNCHANGED <<dataFile, started, textVars, teamVars, chartVars>>

Init == LoadIdle /\ TextIdle /\ ChartIdle /\ TeamIdle

Next ==
    \/ Startup
    \/ refreshVisualizations
    \/ \E newFilename \in FileNames : updateDataFile(newFilename)
    \/ \E i \in 1..Len(loads) : FetchRejected(i)
    \/ \E i \in 1..Len(loads), status \in FailureStatuses : ResponseNotOk(i, status)
    \/ \E i \in 1..Len(loads) : ResponseOk(i)
    \/ \E i \in 1..Len(loads) : JsonRejected(i)
    \/ \E i \in 1..Len(loads), data \in Datasets : JsonParsed(i, data)

Spec == Init /\ [][Next]_vars

\* The promise of the fetch of load i settles.
FetchSettles(i) ==
    /\ i \in 1..Len(loads)
    /\ \/ FetchRejected(i)
       \/ \E status \in FailureStatuses : ResponseNotOk(i, status)
       \/ ResponseOk(i)

\* The promise of response.json() of load i settles.
BodySettles(i) ==
    /\ i \in 1..Len(loads)
    /\ \/ JsonRejected(i)
       \/ \E data \in Datasets : JsonParsed(i, data)

\* The page under the assumption that every promise of a fetch and of the
\* reading of its body settles.
SpecSettling ==
    /\ Init
    /\ [][Next]_vars
    /\ \A i \in 1..MaxLoads : WF_vars(FetchSettles(i)) /\ WF_vars(BodySettles(i))

(***************************************************************************)
(* The formatter applied to bounded inputs                                 *)
(***************************************************************************)

MaxRunLen == 42
MaxTailLen == 2

\* A text of two runs of equal characters and a short third run, and the
\* absent values.
TextInputs ==
    {Str(Run(c1, n1) \o Run(c2, n2) \o Run(c3, n3)) :
        c1 \in Chars, c2 \in Chars, c3 \in Chars,
        n1 \in 0..MaxRunLen, n2 \in 0..MaxRunLen, n3 \in 0..MaxTailLen}
    \cup {Null, Undefined}

InitText ==
    /\ fmtInput \in TextInputs
    /\ fmtOutput = Undefined
    /\ fmtHanded = Undefined
    /\ fmtPc = "input"
    /\ ChartIdle
    /\ LoadIdle
    /\ TeamIdle

FormatText ==
    /\ fmtPc = "input"
    /\ fmtOutput' = formatTextForPopup(fmtInput)
    /\ fmtHanded' = HandedToLineBreaks(fmtInput)
    /\ fmtPc' = "formatted"
    /\ UNCHANGED <<fmtInput, chartVars, loadVars, teamVars>>

\* addSmartLineBreaks called on the text itself.
BreakText ==
    /\ fmtPc = "input"
    /\ fmtInput.tag = "string"
    /\ fmtOutput' = Str(addSmartLineBreaks(fmtInput.chars))
    /\ fmtHanded' = fmtInput
    /\ fmtPc' = "broken"
    /\ UNCHANGED <<fmtInput, chartVars, loadVars, teamVars>>

NextText == FormatText \/ BreakText

SpecText == InitText /\ [][NextText]_vars

(***************************************************************************)
(* The chart builders applied to bounded inputs                            *)
(***************************************************************************)

InitTrace ==
    /\ chartInput \in ChartInputs
    /\ chartOutput = NoOutput
    /\ chartPc = "input"
    /\ TextIdle
    /\ LoadIdle
    /\ TeamIdle

\* Create2D with 'data.reverse()' before the loop: the array of the input is
\* reversed in place.
Create2D_reversesInput ==
    /\ chartPc = "input"
    /\ chartInput' =
          [chartInput EXCEPT
              !.data = [i \in 1..Len(@) |-> @[Len(@) + 1 - i]]]
    /\ chartOutput' = create2DVisualization(chartInput')
    /\ chartPc' = "created2D"
    /\ UNCHANGED <<textVars, teamVars, loadVars>>

Create2D ==
    /\ chartPc = "input"
    /\ chartOutput' = create2DVisualization(chartInput)
    /\ chartPc' = "created2D"
    /\ UNCHANGED <<chartInput, textVars, teamVars, loadVars>>

Create3D ==
    /\ chartPc = "input"
    /\ chartOutput' = create3DVisualization(chartInput)
    /\ chartPc' = "created3D"
    /\ UNCHANGED <<chartInput, textVars, teamVars, loadVars>>

NextTrace == Create2D \/ Create3D

SpecTrace == InitTrace /\ [][NextTrace]_vars

(***************************************************************************)
(* The distribution chart applied to bounded inputs                        *)
(***************************************************************************)

MaxEntries == 3

\* The entries of a language_distribution chart: a language, its count of
\* vectors and its color.
DistEntries ==
    {[language |-> l, count |-> c, color |-> PointColor(l)] :
        l \in {"ESP", "ENG", "FRA"}, c \in {0, 5}}

DistInputs ==
    {[title |-> "Vectors by language", data |-> d] :
        d \in UNION {[1..k -> DistEntries] : k \in 0..MaxEntries}}

InitDist ==
    /\ chartInput \in DistInputs
    /\ chartOutput = NoOutput
    /\ chartPc = "input"
    /\ TextIdle
    /\ LoadIdle
    /\ TeamIdle

CreateDist ==
    /\ chartPc = "input"
    /\ chartOutput' = createLanguageDistribution(chartInput)
    /\ chartPc' = "createdDist"
    /\ UNCHANGED <<chartInput, textVars, teamVars, loadVars>>

NextDist == CreateDist

SpecDist == InitDist /\ [][NextDist]_vars

(***************************************************************************)
(* The three chart functions, each on the chart data it is called with     *)
(***************************************************************************)

\* charts.pca_2d and charts.pca_3d carry variance_explained,
\* charts.language_distribution does not.
IsPcaChart(chartData) == "variance_explained" \in DOMAIN chartData

InitCharts == InitTrace \/ InitDist

NextCharts ==
    \/ IsPcaChart(chartInput) /\ Create2D
    \/ IsPcaChart(chartInput) /\ Create3D
    \/ ~IsPcaChart(chartInput) /\ CreateDist

SpecCharts == InitCharts /\ [][NextCharts]_vars

(***************************************************************************)
(* The team roster view (team-view.js)                                     *)
(***************************************************************************)

\* A member of team-members.json, by the fields that decide how its card is
\* built.  A language list is "absent", an "array", or a non-empty "string"
\* (a single language written without brackets, as the roles may be).
Member(name, natural, programming) ==
    [name |-> name, natural_languages |-> natural,
     programming_languages |-> programming]

TeamMembers ==
    {Member("ana", "array", "array"), Member("ben", "absent", "absent"),
     Member("chen", "array", "absent"), Member("dara", "string", "array")}

\* The largest number of members in a data file.
MaxMembers == 3

\* The pending button-text timeouts the model keeps apart.
MaxTimers == 2

\* Object.values(members): the values of distinct keys, in key order.
MemberArrays ==
    {a \in UNION {[1..k -> TeamMembers] : k \in 0..MaxMembers} :
        \A i \in 1..Len(a), j \in 1..Len(a) : a[i] = a[j] => i = j}

\* The parsed team-members.json: null, an object without 'members', or an
\* object with its members.
TeamFiles ==
    {NoTeamData,
     [tag |-> "object", hasMembers |-> FALSE, members |-> <<>>]}
    \cup {[tag |-> "object", hasMembers |-> TRUE, members |-> a] :
            a \in MemberArrays}

\* A section of createLanguagesHtml: 'list && list.length > 0' lets a
\* non-empty string through, and a string has no map method.
languagesSectionThrows(list) == list = "string"

createLanguagesHtmlThrows(member) ==
    \/ languagesSectionThrows(member.natural_languages)
    \/ languagesSectionThrows(member.programming_languages)

\* createTeamCard: the card of a member, named by the member it shows.
createTeamCard(member) ==
    [threw |-> createLanguagesHtmlThrows(member), card |-> member.name]

\* The position of the first member whose card cannot be built, 0 if none.
FirstThrow(membersArray) ==
    IF \E k \in 1..Len(membersArray) : createTeamCard(membersArray[k]).threw
    THEN CHOOSE k \in 1..Len(membersArray) :
            /\ createTeamCard(membersArray[k]).threw
            /\ \A h \in 1..(k - 1) : ~createTeamCard(membersArray[h]).threw
    ELSE 0

\* renderTeamCards: clears the container, then appends one card per member;
\* an exception in createTeamCard leaves the cards appended before it.
renderTeamCards(membersArray) ==
    Once(FirstThrow(membersArray),
         LAMBDA k :
            [threw |-> k # 0,
             cards |-> [h \in 1..(IF k = 0 THEN Len(membersArray) ELSE k - 1)
                            |-> createTeamCard(membersArray[h]).card]])

\* [shuffled[i], shuffled[j]] = [shuffled[j], shuffled[i]]
Swap(shuffled, i, j) ==
    [shuffled EXCEPT ![i] = shuffled[j], ![j] = shuffled[i]]

\* The values Math.floor(Math.random() * (i + 1)) takes in the loop, one for
\* each i; positions are counted from 1 here, so j is in 1..i for i = n..2.
Draws(n) == {js \in [2..n -> 1..n] : \A i \in 2..n : js[i] <= i}

\* The Fisher-Yates loop of the click handler, from position i downwards.
RECURSIVE fisherYates(_, _, _)
fisherYates(shuffled, i, js) ==
    IF i > 1
    THEN fisherYates(Swap(shuffled, i, js[i]), i - 1, js)
    ELSE shuffled

\* DOMContentLoaded: loadTeamData starts its fetch and setupShuffleButton
\* installs the click handler.  The page may lack the 'teamCards' container.
InitTeam ==
    /\ teamPc = "loading"
    /\ teamMembersData = NoTeamData
    /\ currentOrder = <<>>
    /\ teamCards = <<>>
    /\ teamPage \in {[InitialTeamPage EXCEPT !.teamCards = b] : b \in BOOLEAN}
    /\ buttonText = ShuffleLabel
    /\ resetTimers = 0
    /\ TextIdle
    /\ ChartIdle
    /\ LoadIdle

\* The catch block of loadTeamData.
TeamLoadFailed(page) ==
    [page EXCEPT !.loadingIndicator = "hidden", !.errorMessage = "shown"]

\* fetchTeamData throws: the fetch rejects, the response is not ok, or the
\* body is not JSON.
TeamFetchFailed ==
    /\ teamPc = "loading"
    /\ teamPc' = "failed"
    /\ teamPage' = TeamLoadFailed(teamPage)
    /\ UNCHANGED <<teamMembersData, currentOrder, teamCards, buttonText,
                   resetTimers, textVars, chartVars, loadVars>>

\* loadTeamData after fetchTeamData returned teamData.
TeamDataLoaded(teamData) ==
    /\ teamPc = "loading"
    /\ teamMembersData' = teamData
    /\ \/ \* null, or no members: nothing is displayed
          /\ \/ teamData.tag = "null"
             \/ teamData.hasMembers /\ Len(teamData.members) = 0
          /\ teamPc' = "done"
          /\ teamPage' = [teamPage EXCEPT !.loadingIndicator = "hidden"]
          /\ UNCHANGED <<currentOrder, teamCards>>
       \/ \* Object.keys(undefined) throws
          /\ teamData.tag = "object" /\ ~teamData.hasMembers
          /\ teamPc' = "failed"
          /\ teamPage' = TeamLoadFailed(teamPage)
          /\ UNCHANGED <<currentOrder, teamCards>>
       \/ \* displayTeamMembers without the container
          /\ teamData.hasMembers /\ Len(teamData.members) > 0
          /\ ~teamPage.teamCards
          /\ teamPc' = "done"
          /\ teamPage' = [teamPage EXCEPT !.loadingIndicator = "hidden",
                                          !.teamSection = "shown"]
          /\ UNCHANGED <<currentOrder, teamCards>>
       \/ \* displayTeamMembers
          /\ teamData.hasMembers /\ Len(teamData.members) > 0
          /\ teamPage.teamCards
          /\ currentOrder' = teamData.members
          /\ \E r \in {renderTeamCards(teamData.members)} :
                /\ teamCards' = r.cards
                /\ IF r.threw
                   THEN /\ teamPc' = "failed"
                        /\ teamPage' = TeamLoadFailed(teamPage)
                   ELSE /\ teamPc' = "done"
                        /\ teamPage' =
                              [teamPage EXCEPT !.loadingIndicator = "hidden",
                                               !.teamSection = "shown"]
    /\ UNCHANGED <<buttonText, resetTimers, textVars, chartVars, loadVars>>

\* A click on the shuffle button; js are the random draws of the loop.
ShuffleClick(js) ==
    /\ IF Len(currentOrder) > 0
       THEN /\ resetTimers < MaxTimers
            /\ \E shuffled \in {fisherYates(currentOrder, Len(currentOrder), js)} :
               \E r \in {renderTeamCards(shuffled)} :
                  /\ teamCards' = r.cards
                  /\ IF r.threw
                     THEN UNCHANGED <<buttonText, resetTimers>>
                     ELSE /\ buttonText' = "Order Shuffled!"
                          /\ resetTimers' = resetTimers + 1
            /\ UNCHANGED currentOrder
       ELSE UNCHANGED <<currentOrder, teamCards, buttonText, resetTimers>>
    /\ UNCHANGED <<teamPc, teamMembersData, teamPage, textVars, chartVars,
                   loadVars>>

\* A timeout set by a click fires, two seconds after it.
ButtonTextReset ==
    /\ resetTimers > 0
    /\ resetTimers' = resetTimers - 1
    /\ buttonText' = ShuffleLabel
    /\ UNCHANGED <<teamPc, teamMembersData, currentOrder, teamCards, teamPage,
                   textVars, chartVars, loadVars>>

NextTeam ==
    \/ TeamFetchFailed
    \/ \E teamData \in TeamFiles : TeamDataLoaded(teamData)
    \/ \E js \in Draws(Len(currentOrder)) : ShuffleClick(js)
    \/ ButtonTextReset

SpecTeam == InitTeam /\ [][NextTeam]_vars

(***************************************************************************)
(* Claims about the trace builder and the legend orderer (SpecTrace)       *)
(***************************************************************************)

Created == chartPc \in {"created2D", "created3D"} /\ ~chartOutput.threw

\* The traces handed to Plotly.newPlot by the call, <<>> when it was not called.
Rendered == IF chartOutput.newPlot = <<>> THEN <<>> ELSE chartOutput.newPlot[1]

RenderedNames == [k \in 1..Len(Rendered) |-> Rendered[k].name]

InputKeys == {LegendKey(chartInput.data[i]) : i \in 1..Len(chartInput.data)}

\* The points of the input with legend key key, in input order.
InputPointsOf(key) ==
    LET Same(p) == LegendKey(p) = key
    IN SelectSeq(chartInput.data, Same)

ExpectedPopup(point) ==
    IF chartPc = "created2D" THEN popup2D(point) ELSE popup3D(point)

\* C1: after create2DVisualization or create3DVisualization has grouped the
\* input, every input point's (language, type) key names exactly one trace of
\* the trace map, and the x, y, (z,) label and popup arrays of each trace are
\* those of the input points with that key, in input order (so no point is in
\* two traces and none is missing).
C1_GroupedInInputOrder ==
    Created =>
        LET data == chartInput.data
            traces == chartOutput.traces
        IN /\ \A i \in 1..Len(data) :
                Cardinality({k \in 1..Len(traces) :
                                traces[k].name = LegendKey(data[i])}) = 1
           /\ \A k \in 1..Len(traces) :
                LET sel == InputPointsOf(traces[k].name)
                    n == Len(sel)
                IN /\ n > 0
                   /\ traces[k].x = [j \in 1..n |-> sel[j].x]
                   /\ traces[k].y = [j \in 1..n |-> sel[j].y]
                   /\ traces[k].text = [j \in 1..n |-> sel[j].label]
                   /\ traces[k].customdata = [j \in 1..n |-> ExpectedPopup(sel[j])]
                   /\ chartPc = "created3D" =>
                        traces[k].z = [j \in 1..n |-> sel[j].z]

\* Two different points of one key with a point of another key between them
\* have been grouped by the 2D chart.
C1_Witness ==
    /\ chartPc = "created2D" /\ ~chartOutput.threw
    /\ Len(chartInput.data) = 3
    /\ LegendKey(chartInput.data[1]) = LegendKey(chartInput.data[3])
    /\ LegendKey(chartInput.data[1]) # LegendKey(chartInput.data[2])
    /\ chartInput.data[1].x # chartInput.data[3].x
    /\ Len(chartOutput.traces) = 2

\* C2: every trace handed to the renderer has x, y, text and customdata arrays
\* of one length; a 3D trace has a z array of that length, a 2D trace has no z.
C2_IndexAligned ==
    \A k \in 1..Len(Rendered) :
        LET t == Rendered[k]
        IN /\ Len(t.x) = Len(t.y)
           /\ Len(t.x) = Len(t.text)
           /\ Len(t.x) = Len(t.customdata)
           /\ chartPc = "created3D" => ("z" \in DOMAIN t /\ Len(t.z) = Len(t.x))
           /\ chartPc = "created2D" => "z" \notin DOMAIN t

\* A 3D trace of two points, one of them with an empty popup, was rendered.
C2_Witness ==
    /\ chartPc = "created3D"
    /\ \E k \in 1..Len(Rendered) :
        /\ Len(Rendered[k].z) = 2
        /\ \E j \in 1..Len(Rendered[k].customdata) : Rendered[k].customdata[j] = <<>>

\* The legend vocabulary as the claim states it: documents ENG/ESP/ZHO, then
\* Section (L0)/(L1+) per language, then paragraphs ENG/ESP/ZHO.
C3_Vocabulary ==
    << "ENG Document", "ESP Document", "ZHO Document",
       "ENG Section (L0)", "ENG Section (L1+)",
       "ESP Section (L0)", "ESP Section (L1+)",
       "ZHO Section (L0)", "ZHO Section (L1+)",
       "ENG Paragraph", "ESP Paragraph", "ZHO Paragraph" >>

C3_Position(name) == CHOOSE i \in 1..Len(C3_Vocabulary) : C3_Vocabulary[i] = name

\* The names of the traces the chart builder of this state renders for data.
C3_NamesFor(data) ==
    LET input == [chartInput EXCEPT !.data = data]
        out == IF chartPc = "created2D" THEN create2DVisualization(input)
               ELSE create3DVisualization(input)
    IN IF out.newPlot = <<>> THEN <<>>
       ELSE [k \in 1..Len(out.newPlot[1]) |-> out.newPlot[1][k].name]

\* C3: the names of the rendered traces are a subsequence of the 12-key legend
\* vocabulary (each name is in it, and they appear in its order), and every
\* permutation of the input points renders the same sequence of names.
C3_LegendOrder ==
    Created =>
        /\ \A k \in 1..Len(RenderedNames) :
              \E i \in 1..Len(C3_Vocabulary) : C3_Vocabulary[i] = RenderedNames[k]
        /\ \A k \in 1..Len(RenderedNames), m \in 1..Len(RenderedNames) :
              k < m => C3_Position(RenderedNames[k]) < C3_Position(RenderedNames[m])
        /\ \A perm \in Permutations(1..Len(chartInput.data)) :
              C3_NamesFor([i \in 1..Len(chartInput.data) |-> chartInput.data[perm[i]]])
                  = RenderedNames

\* Three traces were rendered from points given in the reverse of the legend
\* order.
C3_Witness ==
    /\ Created
    /\ Len(chartInput.data) = 3
    /\ RenderedNames = <<"ENG Document", "ZHO Document", "ESP Paragraph">>
    /\ LegendKey(chartInput.data[1]) = "ESP Paragraph"
    /\ LegendKey(chartInput.data[2]) = "ZHO Document"
    /\ LegendKey(chartInput.data[3]) = "ENG Document"

LegendKeys == {getLegendOrder[i] : i \in 1..Len(getLegendOrder)}

\* C4: the rendered traces are exactly the traces of the trace map whose key
\* is in the legend vocabulary, each once: a key outside the vocabulary gives
\* no trace, and a vocabulary key without points gives no trace.
C4_ExactlyListedKeys ==
    Created =>
        /\ {Rendered[k].name : k \in 1..Len(Rendered)}
              = {chartOutput.traces[k].name : k \in 1..Len(chartOutput.traces)}
                    \cap LegendKeys
        /\ Len(Rendered) = Cardinality(InputKeys \cap LegendKeys)
        /\ \A k \in 1..Len(Rendered) :
              Rendered[k] = chartOutput.traces[TraceIndex(chartOutput.traces,
                                                          Rendered[k].name)]

\* Points of a listed and of an unlisted key were grouped, and only the listed
\* key's trace was rendered.
C4_Witness ==
    /\ Created
    /\ "FRA Document" \in InputKeys
    /\ "ENG Document" \in InputKeys
    /\ Len(chartOutput.traces) = 2
    /\ Len(Rendered) = 1

RECURSIVE C5_SumOfLengths(_)
C5_SumOfLengths(ts) ==
    IF ts = <<>> THEN 0 ELSE Len(Head(ts).x) + C5_SumOfLengths(Tail(ts))

\* C5: when every input point's key is in the legend vocabulary, one trace per
\* distinct key is rendered, in the vocabulary's order, and the trace lengths
\* sum to the number of input points; two points of two listed keys give two
\* traces whose arrays have length 1.
C5_AllListedRoundTrip ==
    (Created /\ InputKeys \subseteq LegendKeys) =>
        /\ Len(Rendered) = Cardinality(InputKeys)
        /\ {Rendered[k].name : k \in 1..Len(Rendered)} = InputKeys
        /\ \A k \in 1..Len(Rendered), m \in 1..Len(Rendered) :
              k < m => C3_Position(Rendered[k].name) < C3_Position(Rendered[m].name)
        /\ C5_SumOfLengths(Rendered) = Len(chartInput.data)
        /\ (Len(chartInput.data) = 2 /\ Cardinality(InputKeys) = 2) =>
              /\ Len(Rendered) = 2
              /\ \A k \in 1..2 :
                    /\ Len(Rendered[k].x) = 1
                    /\ Len(Rendered[k].y) = 1
                    /\ Len(Rendered[k].text) = 1
                    /\ Len(Rendered[k].customdata) = 1
                    /\ chartPc = "created3D" => Len(Rendered[k].z) = 1

\* The 3D chart of one ENG Document point and one ESP Paragraph point at
\* (0.3, -0.4, 0.5) was rendered as two traces.
C5_Witness ==
    /\ chartPc = "created3D" /\ ~chartOutput.threw
    /\ Len(chartInput.data) = 2
    /\ LegendKey(chartInput.data[1]) = "ESP Paragraph"
    /\ chartInput.data[1].x = 3000 /\ chartInput.data[1].y = -4000
    /\ chartInput.data[1].z = 5000
    /\ LegendKey(chartInput.data[2]) = "ENG Document"
    /\ RenderedNames = <<"ENG Document", "ESP Paragraph">>

(***************************************************************************)
(* Claims about the load of the data file (Spec)                           *)
(***************************************************************************)

\* Load i ends in the catch block of loadVisualizationData in this step.
FailsNow(i) ==
    /\ i \in 1..Len(loads)
    /\ loads[i].pc # "done"
    /\ loads'[i].pc = "done"
    /\ loads'[i].result = "error"

Contains(message, token) == \E j \in 1..Len(message) : message[j] = token

\* C6: in the step in which a load fails because the fetch is rejected, the
\* response is not ok or the body is not JSON, all three chart containers
\* become the Error Presentation with one non-empty error message (naming the
\* status code when the response was not ok), no container shows a trace, and
\* that load has built no traces and called the renderer for no chart.
C6_FailureStep ==
    \A i \in 1..Len(loads) :
        (FailsNow(i) /\ loads'[i].cause \in {"fetch", "http", "json"}) =>
            /\ \A id \in ContainerIds :
                  /\ containers'[id].kind = "error"
                  /\ containers'[id].traces = <<>>
                  /\ containers'[id].message = containers'["plot-2d-container"].message
                  /\ containers'[id].message # <<>>
                  /\ loads'[i].cause = "http" =>
                        Contains(containers'[id].message, loads'[i].status)
            /\ loads'[i].rendered = {}
            /\ loads'[i].built = {}

C6_FailedLoadShowsError == [][C6_FailureStep]_vars

\* A load has failed with HTTP status 404 and the three containers show the
\* Error Presentation with "404" in its message.
C6_Witness ==
    /\ \E i \in 1..Len(loads) :
          /\ loads[i].pc = "done" /\ loads[i].cause = "http" /\ loads[i].status = "404"
          /\ loads[i].rendered = {} /\ loads[i].built = {}
    /\ \A id \in ContainerIds :
          containers[id].kind = "error" /\ Contains(containers[id].message, "404")

\* C7: in the step in which a load fails, the Error Presentation names the
\* file that this load fetched.
C7_ErrorNamesFetchedFile ==
    [][\A i \in 1..Len(loads) :
          FailsNow(i) =>
              \A id \in ContainerIds : containers'[id].file = loads[i].url]_vars

(***************************************************************************)
(* Claims about formatTextForPopup (SpecText)                              *)
(***************************************************************************)

Formatted == fmtPc = "formatted"

InputIsText == fmtInput.tag = "string" /\ fmtInput.chars # <<>>

HasBreak(s) == \E i \in 1..Len(s) : s[i] = BR

\* C8: formatTextForPopup returns a falsy input (the empty string, null,
\* undefined) as it is.
C8_FalsyUnchanged ==
    (Formatted /\ Falsy(fmtInput)) =>
        /\ fmtOutput = fmtInput
        /\ ~HasBreak(fmtOutput.chars)
        /\ ~Contains(fmtOutput.chars, Dot)

\* formatTextForPopup(null) has returned null.
C8_Witness == Formatted /\ fmtInput = Null /\ fmtOutput = Null

\* The string a text with an ideograph is handed to line-breaking as, with the
\* length the truncated string is said to have.
C9_Handed(lengthWhenTruncated) ==
    (Formatted /\ InputIsText /\ HasCJK(fmtInput.chars)) =>
        IF Len(fmtInput.chars) > 40
        THEN /\ fmtHanded = Str(SubSeq(fmtInput.chars, 1, 40) \o <<".", ".", ".">>)
             /\ Len(fmtHanded.chars) = lengthWhenTruncated
        ELSE fmtHanded = fmtInput

\* C9 as stated: a text with an ideograph anywhere and more than 40 characters
\* is handed to line-breaking as its first 40 characters and the ellipsis
\* marker, 41 characters in all; one of at most 40 characters is handed over
\* untruncated.
C9_Original == C9_Handed(41)

\* C9 as amended: the string handed over has 43 characters, the first 40 of
\* the input and the three characters '...' of the marker.
C9_DenseTruncation == C9_Handed(43)

\* A text of more than 40 characters whose only ideographs come after the
\* 40th character has been formatted.
C9_Witness ==
    /\ Formatted /\ InputIsText
    /\ Len(fmtInput.chars) > 40
    /\ HasCJK(fmtInput.chars)
    /\ ~HasCJK(SubSeq(fmtInput.chars, 1, 40))
    /\ Len(fmtHanded.chars) = 43

\* C10: a non-empty text without ideographs is returned as its first 80
\* characters and the ellipsis marker when it is longer than 80 characters,
\* and unchanged otherwise; the result holds no line-break marker.
C10_WesternTruncation ==
    (Formatted /\ InputIsText /\ ~HasCJK(fmtInput.chars)) =>
        /\ IF Len(fmtInput.chars) > 80
           THEN fmtOutput = Str(SubSeq(fmtInput.chars, 1, 80) \o <<".", ".", ".">>)
           ELSE fmtOutput = fmtInput
        /\ ~HasBreak(fmtOutput.chars)
        /\ fmtHanded = Undefined

\* A text of letters and spaces, longer than 80 characters, has been formatted.
C10_Witness ==
    /\ Formatted /\ InputIsText /\ ~HasCJK(fmtInput.chars)
    /\ Len(fmtInput.chars) > 80
    /\ fmtInput.chars[1] # fmtInput.chars[80]
    /\ Len(fmtOutput.chars) = 83

(***************************************************************************)
(* Claims about addSmartLineBreaks (SpecText)                              *)
(***************************************************************************)

Broken == fmtPc = "broken"

\* The characters of a result, the line-break markers left out.
TextOf(out) ==
    LET IsChar(e) == e # BR
    IN SelectSeq(out, IsChar)

\* The indices i of the text such that a line-break marker follows its i-th
\* character in the result.
BreakPositions(out) ==
    {Cardinality({m \in 1..k : out[m] # BR}) : k \in {n \in 1..Len(out) : out[n] = BR}}

BreakCount(out) == Cardinality({n \in 1..Len(out) : out[n] = BR})

\* The i-th character and the next one are both Latin letters.
LatinPair(text, i) ==
    i < Len(text) /\ IsLatinLetter(text[i]) /\ IsLatinLetter(text[i + 1])

\* The last break position before i, 0 when there is none.
LastBreakBefore(breaks, i) ==
    LET earlier == {b \in breaks : b < i}
    IN IF earlier = {} THEN 0 ELSE CHOOSE b \in earlier : \A c \in earlier : c <= b

\* C11: addSmartLineBreaks keeps the characters of its input, inserts no
\* line-break marker between two adjacent Latin letters, and when 15 or more
\* characters have been counted since the last marker at a position between
\* two Latin letters, the next marker comes after the first later character
\* (not the last of the text) that is not followed by a Latin letter or is not
\* one itself; there is none when no such character exists.
C11_NeverSplitsLatinPair ==
    Broken =>
        LET text == fmtInput.chars
            breaks == BreakPositions(fmtOutput.chars)
        IN /\ TextOf(fmtOutput.chars) = text
           /\ BreakCount(fmtOutput.chars) = Cardinality(breaks)
           /\ \A i \in breaks : ~LatinPair(text, i)
           /\ \A i \in 1..(Len(text) - 1) :
                (LatinPair(text, i) /\ i - LastBreakBefore(breaks, i) >= 15) =>
                    LET later == {j \in (i + 1)..(Len(text) - 1) : ~LatinPair(text, j)}
                    IN IF later = {}
                       THEN \A b \in breaks : b < i
                       ELSE \E j \in later :
                              /\ \A k \in later : j <= k
                              /\ j \in breaks
                              /\ \A b \in breaks : b < i \/ b >= j

\* A text that begins with a word of more than 15 letters has got its first
\* marker after the last letter of the word.
C11_Witness ==
    /\ Broken
    /\ Len(fmtInput.chars) > 20
    /\ \A i \in 1..17 : IsLatinLetter(fmtInput.chars[i])
    /\ \E j \in BreakPositions(fmtOutput.chars) :
          /\ j > 15
          /\ IsLatinLetter(fmtInput.chars[j])
          /\ ~IsLatinLetter(fmtInput.chars[j + 1])
          /\ \A b \in BreakPositions(fmtOutput.chars) : b >= j

NoLatinLetter(text) == \A i \in 1..Len(text) : ~IsLatinLetter(text[i])

AllIdeographs(text) == \A i \in 1..Len(text) : IsCJKIdeograph(text[i])

\* C12: for a text with an ideograph and without Latin letters, the result of
\* formatTextForPopup is the (possibly truncated) string with a line-break
\* marker after each 15th character that is not its last, and no other
\* marker; a text of 45 ideographs becomes 40 ideographs and the ellipsis
\* marker, with exactly 2 line-break markers.
C12_DenseBreakEvery15 ==
    (Formatted /\ InputIsText /\ HasCJK(fmtInput.chars) /\ NoLatinLetter(fmtInput.chars)) =>
        LET handed == fmtHanded.chars
            out == fmtOutput.chars
            every15th == {i \in 1..(Len(handed) - 1) : i % 15 = 0}
        IN /\ TextOf(out) = handed
           /\ BreakPositions(out) = every15th
           /\ BreakCount(out) = Cardinality(every15th)
           /\ (Len(fmtInput.chars) = 45 /\ AllIdeographs(fmtInput.chars)) =>
                 /\ handed = SubSeq(fmtInput.chars, 1, 40) \o <<".", ".", ".">>
                 /\ BreakCount(out) = 2

\* A text of 45 ideographs has been formatted, with a marker after the 15th
\* and after the 30th character.
C12_Witness ==
    /\ Formatted
    /\ Len(fmtInput.chars) = 45
    /\ AllIdeographs(fmtInput.chars)
    /\ BreakCount(fmtOutput.chars) = 2
    /\ fmtOutput.chars[16] = BR
    /\ fmtOutput.chars[32] = BR

(***************************************************************************)
(* Claims about the popups (SpecTrace)                                     *)
(***************************************************************************)

HasField(popup, caption) == \E f \in 1..Len(popup) : popup[f].field = caption

\* The popup pushed for the j-th input point of the key of trace k.
PopupOf(k, j) == chartOutput.traces[k].customdata[j]

\* C13: in the 2D and in the 3D chart, the popup of a DOCUMENT point has
\* neither a section id nor a paragraph id field, that of a SECTION point has
\* a section id field and no paragraph id field, and that of a PARAGRAPH point
\* has a paragraph id field and no section id field.
C13_PopupFieldsByType ==
    Created =>
        \A k \in 1..Len(chartOutput.traces) :
            LET points == InputPointsOf(chartOutput.traces[k].name)
            IN /\ Len(chartOutput.traces[k].customdata) = Len(points)
               /\ \A j \in 1..Len(points) :
                    LET type == points[j].popup.type
                        hasSection == HasField(PopupOf(k, j), "Section ID")
                        hasParagraph == HasField(PopupOf(k, j), "Paragraph ID")
                    IN /\ type = "DOCUMENT" => (~hasSection /\ ~hasParagraph)
                       /\ type = "SECTION" => (hasSection /\ ~hasParagraph)
                       /\ type = "PARAGRAPH" => (hasParagraph /\ ~hasSection)

\* The 3D chart has composed the popups of a DOCUMENT point, a SECTION point
\* and a PARAGRAPH point whose payload holds a section_id.
C13_Witness ==
    /\ chartPc = "created3D" /\ ~chartOutput.threw
    /\ \E a, b, c \in 1..Len(chartInput.data) :
          /\ chartInput.data[a].popup.type = "DOCUMENT"
          /\ chartInput.data[b].popup.type = "SECTION"
          /\ chartInput.data[c].popup.type = "PARAGRAPH"
          /\ chartInput.data[c].popup.section_id.tag = "string"
    /\ \E k \in 1..Len(chartOutput.traces) :
          HasField(PopupOf(k, 1), "Paragraph ID")

UnknownPopupType(point) ==
    point.popup.present /\ point.popup.type \notin {"DOCUMENT", "SECTION", "PARAGRAPH"}

\* C14: a chart whose points all have a popup object (and that has its
\* variance) is built without an exception whatever the popup types are, and
\* a point of a type other than DOCUMENT, SECTION, PARAGRAPH is in the trace
\* of its key with its coordinates, its label and the empty string as popup,
\* all at one index.
C14_UnknownTypeEmptyPopup ==
    /\ (/\ chartPc \in {"created2D", "created3D"}
        /\ HasVariance(chartInput)
        /\ \A i \in 1..Len(chartInput.data) : chartInput.data[i].popup.present)
          => (~chartOutput.threw /\ Len(chartOutput.newPlot) = 1)
    /\ Created =>
          \A k \in 1..Len(chartOutput.traces) :
              LET t == chartOutput.traces[k]
                  points == InputPointsOf(t.name)
              IN \A j \in 1..Len(points) :
                    UnknownPopupType(points[j]) =>
                        /\ Len(t.customdata) = Len(t.x)
                        /\ t.customdata[j] = <<>>
                        /\ t.x[j] = points[j].x
                        /\ t.y[j] = points[j].y
                        /\ t.text[j] = points[j].label
                        /\ chartPc = "created3D" => t.z[j] = points[j].z

\* The 2D chart has rendered a trace of two points, the first with a
\* DOCUMENT popup, the second of an unknown popup type and with the empty
\* string as popup.
C14_Witness ==
    /\ chartPc = "created2D" /\ ~chartOutput.threw
    /\ \E i \in 1..Len(chartInput.data) : UnknownPopupType(chartInput.data[i])
    /\ \E k \in 1..Len(Rendered) :
          /\ Len(Rendered[k].x) = 2
          /\ Rendered[k].customdata[1] # <<>>
          /\ Rendered[k].customdata[2] = <<>>
          /\ Rendered[k].text[2] = "second"

(***************************************************************************)
(* Claims about the distribution chart (SpecDist)                          *)
(***************************************************************************)

\* C15: createLanguageDistribution hands the renderer exactly one trace, of
\* type bar, whose categories, values and colors are the language, count and
\* color of the input entries, entry by entry in input order; no trace map is
\* built.
C15_OneBarTraceInInputOrder ==
    chartPc = "createdDist" =>
        /\ ~chartOutput.threw
        /\ chartOutput.traces = NoTraces
        /\ Len(chartOutput.newPlot) = 1
        /\ Len(Rendered) = 1
        /\ chartOutput.container.traces = Rendered
        /\ LET t == Rendered[1]
               data == chartInput.data
           IN /\ t.type = "bar"
              /\ Len(t.x) = Len(data)
              /\ Len(t.y) = Len(data)
              /\ Len(t.marker.color) = Len(data)
              /\ \A i \in 1..Len(data) :
                    /\ t.x[i] = data[i].language
                    /\ t.y[i] = data[i].count
                    /\ t.marker.color[i] = data[i].color

\* The chart of three entries (a language twice, a language outside the
\* corpus, not in legend order) has been built.
C15_Witness ==
    /\ chartPc = "createdDist"
    /\ Len(chartInput.data) = 3
    /\ Rendered[1].x = <<"ESP", "FRA", "ESP">>
    /\ Rendered[1].y = <<5, 0, 0>>

(***************************************************************************)
(* Claims about overlapping and repeated loads (Spec)                      *)
(***************************************************************************)

\* Load i ends in this step.
FinishesNow(i) ==
    /\ i \in 1..Len(loads)
    /\ loads[i].pc # "done"
    /\ loads'[i].pc = "done"

DatasetOf(id) == CHOOSE d \in Datasets : d.id = id

\* The container a chart function leaves for the chart of dataset d.
ChartOf(d, id) ==
    IF id = "plot-2d-container" THEN create2DVisualization(d.pca_2d).container
    ELSE IF id = "plot-3d-container" THEN create3DVisualization(d.pca_3d).container
    ELSE createLanguageDistribution(d.language_distribution).container

\* A load has been started while an earlier one had not ended.
Overlapped ==
    /\ Len(loads) = 2
    /\ loads[1].pc = "done" /\ loads[2].pc = "done"

\* C16: starting a load leaves every earlier load as it is, no load is ever
\* removed or changed once ended, and the step in which a load ends writes
\* that load's outcome to the page whatever the other loads are: the dataset
\* it parsed (its timestamp and the charts it rendered) or the Error
\* Presentation, also when a load started later has ended before.
C16_Step ==
    /\ Len(loads') >= Len(loads)
    /\ Len(loads') > Len(loads) =>
          (Len(loads') = Len(loads) + 1 /\ SubSeq(loads', 1, Len(loads)) = loads)
    /\ \A i \in 1..Len(loads) :
          /\ loads'[i].url = loads[i].url
          /\ loads[i].pc = "done" => loads'[i] = loads[i]
          /\ FinishesNow(i) =>
                IF loads'[i].result = "updated"
                THEN /\ slots'.timestamp = loads'[i].data
                     /\ \A id \in loads'[i].rendered :
                           containers'[id] = ChartOf(DatasetOf(loads'[i].data), id)
                ELSE /\ loads'[i].result = "error"
                     /\ \A id \in ContainerIds : containers'[id].kind = "error"

C16_LastProcessedWins == [][C16_Step]_vars

\* updateDataFile started a second load while the first fetch was
\* outstanding; both loads have ended, the second with dataset B, and the
\* page shows dataset A of the first load, the file the page no longer names.
C16_Witness ==
    /\ Overlapped
    /\ loads[1].result = "updated" /\ loads[1].data = "A"
    /\ loads[2].result = "updated" /\ loads[2].data = "B"
    /\ loads[2].url # loads[1].url
    /\ dataFile = loads[2].url
    /\ slots.timestamp = "A"
    /\ containers["plot-2d-container"] = ChartOf(DatasetOf("A"), "plot-2d-container")
    /\ containers["plot-2d-container"] # ChartOf(DatasetOf("B"), "plot-2d-container")

\* What container id showed before the step is still there after it, and the
\* load that ends in the step has not called the chart function of id.
RemainsFromEarlier(i, id) ==
    /\ containers[id].kind \in {"plot", "error"}
    /\ containers'[id] = containers[id]
    /\ id \notin loads'[i].built

\* C17: in the step in which a load ends successfully, no chart container
\* keeps the chart or the Error Presentation an earlier load left in it, also
\* when the dataset has no pca_2d, pca_3d or language_distribution chart.
C17_FullyReplaced ==
    [][\A i \in 1..Len(loads) :
          (FinishesNow(i) /\ loads'[i].result = "updated") =>
              \A id \in ContainerIds : ~RemainsFromEarlier(i, id)]_vars

(***************************************************************************)
(* Claims about what the chart builders log and render (SpecTrace)         *)
(***************************************************************************)

\* What the call has written to the console at a level above 'log'.
Warnings ==
    LET Above(entry) == entry.level \in {"warn", "error"}
    IN SelectSeq(chartOutput.console, Above)

\* C18: when a chart has been built, a point whose legend key is not in the
\* legend vocabulary is in no rendered trace, and the console holds a
\* warning for it.
C18_UnlistedDroppedAndWarned ==
    Created =>
        \A i \in 1..Len(chartInput.data) :
            LegendKey(chartInput.data[i]) \notin LegendKeys =>
                /\ \A k \in 1..Len(Rendered) :
                      Rendered[k].name # LegendKey(chartInput.data[i])
                /\ Warnings # <<>>

\* The input points whose legend key the legend vocabulary lists.
ListedPoints ==
    LET Listed(p) == LegendKey(p) \in LegendKeys
    IN SelectSeq(chartInput.data, Listed)

\* C19: a call of create2DVisualization or create3DVisualization calls the
\* renderer at most once; when it does, every input point has been grouped
\* and has its popup, and the traces handed over are the ordered traces with
\* all the points of their keys; when the call fails part-way the renderer is
\* not called and the container shows no trace.
C19_RendersOnlyCompleteCharts ==
    chartPc \in {"created2D", "created3D"} =>
        /\ Len(chartOutput.newPlot) <= 1
        /\ chartOutput.threw =>
              /\ chartOutput.newPlot = <<>>
              /\ chartOutput.container.kind = "empty"
              /\ chartOutput.container.traces = <<>>
        /\ chartOutput.newPlot # <<>> =>
              /\ ~chartOutput.threw
              /\ chartOutput.container.kind = "plot"
              /\ chartOutput.container.traces = Rendered
              /\ \A i \in 1..Len(chartInput.data) :
                    HasTrace(chartOutput.traces, LegendKey(chartInput.data[i]))
              /\ C5_SumOfLengths(chartOutput.traces) = Len(chartInput.data)
              /\ C5_SumOfLengths(Rendered) = Len(ListedPoints)
              /\ \A k \in 1..Len(Rendered) :
                    /\ Len(Rendered[k].x) = Len(InputPointsOf(Rendered[k].name))
                    /\ Len(Rendered[k].customdata) = Len(Rendered[k].x)
              /\ \A k \in 1..Len(Rendered), m \in 1..Len(Rendered) :
                    k < m => C3_Position(Rendered[k].name) < C3_Position(Rendered[m].name)

\* The 3D builder has failed at the second of three points: it had built a
\* trace and did not call the renderer.
C19_Witness ==
    /\ chartPc = "created3D"
    /\ chartOutput.threw
    /\ Len(chartInput.data) = 3
    /\ chartInput.data[1].popup.present
    /\ ~chartInput.data[2].popup.present
    /\ Len(chartOutput.traces) >= 1
    /\ chartOutput.newPlot = <<>>

(***************************************************************************)
(* Claims about retries (Spec)                                             *)
(***************************************************************************)

\* The step is the page startup or a call of refreshVisualizations or
\* updateDataFile.
Trigger ==
    \/ Startup
    \/ refreshVisualizations
    \/ \E newFilename \in FileNames : updateDataFile(newFilename)

\* C20: the number of fetches issued (one per call of loadVisualizationData)
\* grows only in a step that is the page startup or a call of
\* refreshVisualizations or updateDataFile, and by one in each such step; in
\* particular the step in which a load fails issues no fetch.
C20_Step ==
    /\ Len(loads') # Len(loads) => (Trigger /\ Len(loads') = Len(loads) + 1)
    /\ Trigger => Len(loads') = Len(loads) + 1
    /\ (\E i \in 1..Len(loads) : FailsNow(i)) =>
          /\ Len(loads') = Len(loads)
          /\ \A j \in 1..Len(loads) : loads[j].pc = "done" => loads'[j] = loads[j]

C20_NoAutomaticRetry == [][C20_Step]_vars

\* The only load the page has started has failed on a rejected fetch, and no
\* other load exists.
C20_Witness ==
    /\ started
    /\ Len(loads) = 1
    /\ loads[1].pc = "done"
    /\ loads[1].result = "error"
    /\ loads[1].cause = "fetch"
    /\ \A id \in ContainerIds : containers[id].kind = "error"

(***************************************************************************)
(* Further claims about addSmartLineBreaks and formatTextForPopup          *)
(* (SpecText)                                                              *)
(***************************************************************************)

\* C21: the result of addSmartLineBreaks does not end with a line-break
\* marker, whatever the length of the text is (15, a multiple of 15, or a
\* length at which a deferred break comes to the last character).
C21_NoBreakAfterLast ==
    Broken =>
        /\ Len(fmtInput.chars) \notin BreakPositions(fmtOutput.chars)
        /\ fmtOutput.chars # <<>> => fmtOutput.chars[Len(fmtOutput.chars)] # BR
        /\ fmtInput.chars = <<>> => fmtOutput.chars = <<>>

\* A text of 30 characters that are not letters has got one marker, after
\* the 15th character and none after the 30th.
C21_Witness ==
    /\ Broken
    /\ Len(fmtInput.chars) = 30
    /\ NoLatinLetter(fmtInput.chars)
    /\ BreakPositions(fmtOutput.chars) = {15}
    /\ Len(fmtOutput.chars) = 31

\* C23: the characters of the result of addSmartLineBreaks, its line-break
\* markers left out, are the text: the same characters in the same order.
C23_OnlyInsertsMarkers ==
    Broken =>
        /\ TextOf(fmtOutput.chars) = fmtInput.chars
        /\ Len(fmtOutput.chars) = Len(fmtInput.chars) + BreakCount(fmtOutput.chars)

\* A text of letters, ideographs and spaces has got markers, and the
\* characters between them are the text.
C23_Witness ==
    /\ Broken
    /\ BreakCount(fmtOutput.chars) >= 2
    /\ \E i, j, k \in 1..Len(fmtInput.chars) :
          /\ fmtInput.chars[i] = Letter
          /\ fmtInput.chars[j] = Ideograph
          /\ fmtInput.chars[k] = Space
    /\ TextOf(fmtOutput.chars) = fmtInput.chars

(***************************************************************************)
(* Claims about what the chart functions write (SpecCharts)                *)
(***************************************************************************)

\* C22: a call of create2DVisualization, create3DVisualization or
\* createLanguageDistribution leaves the chart data it is given and every
\* record in it as they were, and writes nothing but what it builds, its own
\* container and its call of the renderer: the configuration, the loads, the
\* containers of the other charts and the text slots keep their values.
C22_Step ==
    chartPc' # chartPc =>
        /\ chartInput' = chartInput
        /\ \A i \in 1..Len(chartInput.data) : chartInput'.data[i] = chartInput.data[i]
        /\ dataFile' = dataFile
        /\ loads' = loads
        /\ containers' = containers
        /\ slots' = slots
        /\ <<fmtInput, fmtOutput, fmtHanded, fmtPc>>' = <<fmtInput, fmtOutput, fmtHanded, fmtPc>>

C22_OnlyReadsInput == [][C22_Step]_vars

\* The 2D chart of three points of two keys, given in an order other than
\* the legend's and not the same read backwards, has been built and rendered.
C22_Witness ==
    /\ chartPc = "created2D"
    /\ ~chartOutput.threw
    /\ Len(chartInput.data) = 3
    /\ chartInput.data[1] # chartInput.data[3]
    /\ Len(Rendered) = 2
    /\ Rendered[1].name = LegendKey(chartInput.data[3])
    /\ containers = InitialContainers

(***************************************************************************)
(* Claims about the formatted popup text (SpecText)                        *)
(***************************************************************************)

\* C24: when a text with an ideograph is truncated, the result has no
\* line-break marker after the first or after the second character of the
\* ellipsis marker (the 41st and the 42nd character of the truncated string).
C24_EllipsisNotSplit ==
    (Formatted /\ InputIsText /\ HasCJK(fmtInput.chars) /\ Len(fmtInput.chars) > 40) =>
        BreakPositions(fmtOutput.chars) \cap {41, 42} = {}

\* content is at most limit characters from the start of text, followed by
\* the ellipsis marker when the text is longer.
LimitedTo(content, text, limit) ==
    IF Len(text) > limit
    THEN content = SubSeq(text, 1, limit) \o <<".", ".", ".">>
    ELSE content = text

\* C25: the result of formatTextForPopup for a text without ideographs is at
\* most 80 characters of the text and the ellipsis marker, without line-break
\* markers; for a text with an ideograph it is at most 40 characters of the
\* text and the ellipsis marker, with at most 2 line-break markers, each at
\* least 15 characters after the start or the marker before it.
C25_LengthLimited ==
    (Formatted /\ InputIsText) =>
        LET content == TextOf(fmtOutput.chars)
            breaks == BreakPositions(fmtOutput.chars)
        IN IF HasCJK(fmtInput.chars)
           THEN /\ LimitedTo(content, fmtInput.chars, 40)
                /\ Len(content) <= 43
                /\ BreakCount(fmtOutput.chars) <= 2
                /\ BreakCount(fmtOutput.chars) = Cardinality(breaks)
                /\ \A b \in breaks : b - LastBreakBefore(breaks, b) >= 15
           ELSE /\ LimitedTo(content, fmtInput.chars, 80)
                /\ Len(fmtOutput.chars) <= 83
                /\ BreakCount(fmtOutput.chars) = 0

\* A text of more than 43 characters with a word of letters and an ideograph
\* in its first 40 characters has been formatted into 43 characters and 2
\* line-break markers.
C25_Witness ==
    /\ Formatted /\ InputIsText
    /\ Len(fmtInput.chars) > 43
    /\ HasCJK(SubSeq(fmtInput.chars, 1, 40))
    /\ LatinPair(fmtInput.chars, 15)
    /\ Len(TextOf(fmtOutput.chars)) = 43
    /\ BreakCount(fmtOutput.chars) = 2

(***************************************************************************)
(* Claims about the outcome of one load (Spec)                             *)
(***************************************************************************)

\* C26: a load that has ended with the Error Presentation has called no
\* chart function and rendered no chart, and in the step in which a load
\* that rendered a chart ends, that load is not failed, its charts are in
\* their containers and no container is turned into the Error Presentation.
C26_Step ==
    \A i \in 1..Len(loads) :
        FinishesNow(i) =>
            /\ loads'[i].result = "error" =>
                  /\ loads'[i].rendered = {}
                  /\ loads'[i].built = {}
                  /\ \A id \in ContainerIds :
                        containers'[id].kind = "error" /\ containers'[id].traces = <<>>
            /\ loads'[i].rendered # {} =>
                  /\ loads'[i].result = "updated"
                  /\ \A id \in loads'[i].rendered : containers'[id].kind = "plot"
                  /\ \A id \in ContainerIds :
                        containers'[id].kind = "error" => containers'[id] = containers[id]

C26_ErrorOrRenderNotBoth == [][C26_Step]_vars

\* A load whose 3D chart threw after its 2D chart was rendered has ended
\* without the Error Presentation.
C26_Witness ==
    \E i \in 1..Len(loads) :
        /\ loads[i].pc = "done"
        /\ loads[i].result = "updated"
        /\ loads[i].caught
        /\ loads[i].rendered = {"plot-2d-container"}
        /\ containers["plot-2d-container"].kind = "plot"
        /\ containers["plot-3d-container"].kind = "empty"

\* The chart containers in the order in which updateVisualizationsFromData
\* builds their charts.
ChartOrder == <<"plot-2d-container", "plot-3d-container", "plot-dist-container">>

\* Whether dataset d has the chart of the n-th container.
HasChart(d, n) == IF n = 1 THEN d.has2d ELSE IF n = 2 THEN d.has3d ELSE d.hasDist

\* C27: in the step in which a load ends after one of its chart functions
\* threw, the load is not failed and no container is turned into the Error
\* Presentation; exactly one chart function was called without rendering, its
\* container is cleared and shows no trace; the charts of the dataset before
\* it in the order 2D, 3D, distribution are rendered; the chart functions
\* after it were not called and their containers are as before the step.
C27_Step ==
    \A i \in 1..Len(loads) :
        (FinishesNow(i) /\ loads'[i].caught) =>
            /\ loads'[i].result = "updated"
            /\ \E n \in 1..3 :
                  /\ loads'[i].built \ loads'[i].rendered = {ChartOrder[n]}
                  /\ containers'[ChartOrder[n]].kind = "empty"
                  /\ containers'[ChartOrder[n]].traces = <<>>
                  /\ \A m \in 1..(n - 1) :
                        IF HasChart(DatasetOf(loads'[i].data), m)
                        THEN /\ ChartOrder[m] \in loads'[i].rendered
                             /\ containers'[ChartOrder[m]] =
                                    ChartOf(DatasetOf(loads'[i].data), ChartOrder[m])
                        ELSE containers'[ChartOrder[m]] = containers[ChartOrder[m]]
                  /\ \A m \in (n + 1)..3 :
                        /\ ChartOrder[m] \notin loads'[i].built
                        /\ containers'[ChartOrder[m]] = containers[ChartOrder[m]]

C27_ChartFailureSwallowed == [][C27_Step]_vars

\* After a load that rendered the three charts, a load whose 3D chart has a
\* point without popup object has ended: the 2D chart is the new one, the 3D
\* container is cleared, the distribution chart is still the earlier one.
C27_Witness ==
    /\ Len(loads) = 2
    /\ \E i, j \in 1..2 :
          /\ i # j
          /\ loads[i].pc = "done" /\ loads[i].result = "updated"
          /\ loads[i].rendered = ContainerIds
          /\ loads[j].pc = "done" /\ loads[j].result = "updated"
          /\ loads[j].caught /\ loads[j].data = "C"
          /\ loads[j].built = {"plot-2d-container", "plot-3d-container"}
    /\ slots.timestamp = "C"
    /\ containers["plot-2d-container"].kind = "plot"
    /\ containers["plot-3d-container"].kind = "empty"
    /\ containers["plot-dist-container"].kind = "plot"

\* Load i takes a step of its own: its fetch settles or its body is parsed.
StepsNow(i) == i \in 1..Len(loads) /\ loads'[i] # loads[i]

\* C28: the steps of a load that fails at the fetch, at the status check or
\* at the parsing of the body (the settling of its fetch and the step in which
\* it fails) leave the text slots for model, statistics and timestamp and the
\* configured data file as they were; the failing step changes the three
\* chart containers only.
C28_Step ==
    \A i \in 1..Len(loads) :
        (StepsNow(i) /\ loads'[i].result # "updated"
                     /\ loads'[i].cause \in {"", "fetch", "http", "json"}) =>
            /\ slots' = slots
            /\ dataFile' = dataFile
            /\ started' = started
            /\ \A j \in 1..Len(loads) : j # i => loads'[j] = loads[j]
            /\ Len(loads') = Len(loads)

C28_FailedLoadKeepsSlots == [][C28_Step]_vars

\* After a load that wrote dataset A to the slots, a load of another file has
\* failed with status 500: the containers show the Error Presentation, the
\* slots still hold A and the configuration names the other file.
C28_Witness ==
    /\ Len(loads) = 2
    /\ loads[1].result = "updated" /\ loads[1].data = "A"
    /\ loads[2].result = "error" /\ loads[2].cause = "http" /\ loads[2].status = "500"
    /\ \A id \in ContainerIds : containers[id].kind = "error"
    /\ slots = [model |-> "A", statDocuments |-> "A", statOthers |-> "A",
                timestamp |-> "A"]
    /\ dataFile = loads[2].url
    /\ dataFile # DefaultDataFile

(***************************************************************************)
(* Claims about the completion of a load (SpecSettling)                    *)
(***************************************************************************)

\* Load i has been started.
Started(i) == Len(loads) >= i

\* Load i has ended.
Completed(i) == Len(loads) >= i /\ loads[i].pc = "done"

\* The step in which load i ends is either the normal return of
\* updateVisualizationsFromData, which shows no Error Presentation, or the
\* showing of the Error Presentation.
C29_EndsOneWay(i) ==
    FinishesNow(i) =>
        \/ /\ loads'[i].result = "updated"
           /\ slots'.timestamp = loads'[i].data
           /\ \A id \in ContainerIds :
                 containers'[id].kind = "error" => containers'[id] = containers[id]
        \/ /\ loads'[i].result = "error"
           /\ loads'[i].rendered = {}
           /\ \A id \in ContainerIds : containers'[id].kind = "error"

\* C29: when every promise settles, every load that has been started ends,
\* whatever startup, refreshVisualizations and updateDataFile do meanwhile,
\* and it ends in one of two ways: updateVisualizationsFromData has returned
\* normally, or the Error Presentation has been shown.
C29_EveryLoadCompletes ==
    /\ [][\A i \in 1..Len(loads) : C29_EndsOneWay(i)]_vars
    /\ [](\A i \in 1..Len(loads) :
            loads[i].pc = "done" => loads[i].result \in {"updated", "error"})
    /\ \A i \in 1..MaxLoads : Started(i) ~> Completed(i)

\* Two loads overlapped (the second started by updateDataFile while the
\* first was outstanding) and both have ended, one updated, one with the
\* Error Presentation.
C29_Witness ==
    /\ Completed(1) /\ Completed(2)
    /\ loads[2].url # loads[1].url
    /\ loads[1].result = "error"
    /\ loads[2].result = "updated"
    /\ slots.timestamp = loads[2].data
    /\ \A id \in ContainerIds : containers[id].kind = "error"

(***************************************************************************)
(* C30: the shuffled roster                                                *)
(***************************************************************************)

\* The cards show each of the members exactly once.
ShowsEachOnce(cards, members) ==
    /\ Len(cards) = Len(members)
    /\ \A m \in 1..Len(members) :
          Cardinality({k \in 1..Len(cards) : cards[k] = members[m].name}) = 1

\* C30: in the team roster view, whatever number of clicks on the shuffle
\* button has been made, the rendered cards are a permutation of the members
\* that displayTeamMembers loaded (each member exactly once); a step that is
\* not the load (a click, a timeout) never changes the stored currentOrder;
\* and as long as no members are loaded no card is rendered, whatever is
\* clicked.
C30_ShuffleShowsEachMemberOnce ==
    /\ [](currentOrder # <<>> =>
            /\ currentOrder = teamMembersData.members
            /\ ShowsEachOnce(teamCards, teamMembersData.members))
    /\ [](currentOrder = <<>> => teamCards = <<>>)
    /\ [][teamPc' = teamPc => currentOrder' = currentOrder]_vars
====
